---------------------------- MODULE Spec2Model ----------------------------
(***************************************************************************)
(* A model of the submission similarity pipeline of                        *)
(* judge/views/trial_script.py: the identity codec (extract_username,      *)
(* normalize_problem_code), the port allocator (find_free_port), the       *)
(* report aggregator (extract_similarity_data), the orchestrator           *)
(* (download_problem_submissions) and the matrix builder                   *)
(* (read_similarity_matrix).                                               *)
(*                                                                         *)
(* Python strings are sequences of one-character strings, so that          *)
(* split, rsplit, endswith, slicing and join are computed, not assumed.    *)
(* A similarity (a float in [0,1]) is an integer number of hundredths; a   *)
(* similarity_percent is an integer number of hundredths of a percent, so  *)
(* that score * 100 is a multiplication and "%.2f" a formatting.           *)
(***************************************************************************)
EXTENDS Integers, Sequences, FiniteSets, TLC

(***************************************************************************)
(* Bounds of the model.                                                    *)
(***************************************************************************)
MaxCalls == 2
MaxNameLen == 3
MaxSubId == 11
MaxRows == 2
MaxPaths == 2
MaxRowsPerReport == 2
PortRange == 3
MaxMissing == 1
MaxWrites == 2
MaxRuns == 2
MaxRecipients == 2

(***************************************************************************)
(* Python string primitives.                                               *)
(***************************************************************************)
Last(s) == s[Len(s)]

Front(s) == SubSeq(s, 1, Len(s) - 1)

Range(s) == {s[i] : i \in 1..Len(s)}

\* str.endswith(suffix)
EndsWith(s, suffix) ==
  /\ Len(s) >= Len(suffix)
  /\ SubSeq(s, Len(s) - Len(suffix) + 1, Len(s)) = suffix

\* s[:-n] for n >= 1
DropLast(s, n) == SubSeq(s, 1, Len(s) - n)

\* str.replace(ch, '') for a one-character ch
RemoveChar(s, ch) == SelectSeq(s, LAMBDA c : c # ch)

\* str.replace(a, b) for one-character a and b
ReplaceChar(s, a, b) == [i \in 1..Len(s) |-> IF s[i] = a THEN b ELSE s[i]]

\* the greatest index at which ch occurs in s, 0 when it does not occur
LastIndexOf(s, ch) ==
  IF \E i \in 1..Len(s) : s[i] = ch
  THEN CHOOSE i \in 1..Len(s) : s[i] = ch /\ \A j \in (i+1)..Len(s) : s[j] # ch
  ELSE 0

\* the least index at which ch occurs in s, 0 when it does not occur
FirstIndexOf(s, ch) ==
  IF \E i \in 1..Len(s) : s[i] = ch
  THEN CHOOSE i \in 1..Len(s) : s[i] = ch /\ \A j \in 1..(i-1) : s[j] # ch
  ELSE 0

\* s.rsplit(ch, 1)[0]
RSplit1Head(s, ch) ==
  IF LastIndexOf(s, ch) = 0 THEN s ELSE SubSeq(s, 1, LastIndexOf(s, ch) - 1)

\* s.split(ch): the segments between the occurrences of ch, empty ones
\* kept; i is the first occurrence of ch and rest what follows it
RECURSIVE Split(_, _)
Split(s, ch) ==
  IF FirstIndexOf(s, ch) = 0
  THEN <<s>>
  ELSE CHOOSE parts \in
         {<<SubSeq(s, 1, i - 1)>> \o Split(rest, ch) :
            i \in {FirstIndexOf(s, ch)},
            rest \in {SubSeq(s, FirstIndexOf(s, ch) + 1, Len(s))}} : TRUE

\* ch.join(parts)
RECURSIVE Join(_, _)
Join(parts, ch) ==
  IF parts = <<>> THEN <<>>
  ELSE IF Len(parts) = 1 THEN parts[1]
  ELSE parts[1] \o <<ch>> \o Join(Tail(parts), ch)

DigitChars == <<"0", "1", "2", "3", "4", "5", "6", "7", "8", "9">>

\* str.isdigit(): false on the empty string
IsDigit(s) == s # <<>> /\ \A i \in 1..Len(s) : s[i] \in Range(DigitChars)

\* str(n) for n >= 0
RECURSIVE IntStr(_)
IntStr(n) ==
  IF n < 10 THEN <<DigitChars[n + 1]>>
  ELSE IntStr(n \div 10) \o <<DigitChars[(n % 10) + 1]>>

\* needle in haystack (substring test)
Contains(haystack, needle) ==
  \E i \in 1..(Len(haystack) - Len(needle) + 1) :
     SubSeq(haystack, i, i + Len(needle) - 1) = needle

\* dict.get(key, default) on a dict written as a sequence of <<key, value>>
DictGet(dict, key, default) ==
  IF \E i \in 1..Len(dict) : dict[i][1] = key
  THEN dict[CHOOSE i \in 1..Len(dict) : dict[i][1] = key][2]
  ELSE default

(***************************************************************************)
(* The language tables.                                                    *)
(***************************************************************************)
LANGUAGE_EXTENSIONS ==
  << << <<"C">>,                                     <<"c">> >>,
     << <<"C","+","+">>,                             <<"c","p","p">> >>,
     << <<"C","+","+","1","1">>,                     <<"c","p","p">> >>,
     << <<"P","y","t","h","o","n"," ","2">>,         <<"p","y">> >>,
     << <<"P","y","t","h","o","n"," ","3">>,         <<"p","y">> >>,
     << <<"J","a","v","a">>,                         <<"j","a","v","a">> >>,
     << <<"R","u","s","t">>,                         <<"r","s">> >>,
     << <<"G","o">>,                                 <<"g","o">> >>,
     << <<"K","o","t","l","i","n">>,                 <<"k","t">> >>,
     << <<"P","a","s","c","a","l">>,                 <<"p","a","s">> >>,
     << <<"R","u","b","y">>,                         <<"r","b">> >>,
     << <<"H","a","s","k","e","l","l">>,             <<"h","s">> >>,
     << <<"P","e","r","l">>,                         <<"p","l">> >>,
     << <<"S","c","a","l","a">>,                     <<"s","c","a","l","a">> >>,
     << <<"J","a","v","a","S","c","r","i","p","t">>, <<"j","s">> >> >>

DOLOS_LANGUAGE_FLAGS ==
  << << <<"C">>,                                     <<"c">> >>,
     << <<"C","+","+">>,                             <<"c","p","p">> >>,
     << <<"C","+","+","1","1">>,                     <<"c","p","p">> >>,
     << <<"P","y","t","h","o","n"," ","2">>,         <<"p","y","t","h","o","n">> >>,
     << <<"P","y","t","h","o","n"," ","3">>,         <<"p","y","t","h","o","n">> >>,
     << <<"J","a","v","a">>,                         <<"j","a","v","a">> >>,
     << <<"R","u","s","t">>,                         <<"r","s">> >>,
     << <<"G","o">>,                                 <<"g","o">> >>,
     << <<"K","o","t","l","i","n">>,                 <<"k","t">> >>,
     << <<"P","a","s","c","a","l">>,                 <<"p","a","s">> >>,
     << <<"R","u","b","y">>,                         <<"r","b">> >>,
     << <<"H","a","s","k","e","l","l">>,             <<"h","s">> >>,
     << <<"P","e","r","l">>,                         <<"p","l">> >>,
     << <<"S","c","a","l","a">>,                     <<"s","c","a","l","a">> >>,
     << <<"J","a","v","a","S","c","r","i","p","t">>,
        <<"j","a","v","a","s","c","r","i","p","t">> >> >>

\* the list normalize_problem_code walks, in its order
NormalizeLanguages ==
  << <<"C">>,
     <<"C","+","+">>,
     <<"C","+","+","1","1">>,
     <<"P","y","t","h","o","n"," ","2">>,
     <<"P","y","t","h","o","n"," ","3">>,
     <<"J","a","v","a">>,
     <<"R","u","s","t">>,
     <<"G","o">>,
     <<"K","o","t","l","i","n">>,
     <<"P","a","s","c","a","l">>,
     <<"R","u","b","y">>,
     <<"H","a","s","k","e","l","l">>,
     <<"P","e","r","l">>,
     <<"S","c","a","l","a">>,
     <<"J","a","v","a","S","c","r","i","p","t">> >>

(***************************************************************************)
(* Names used by the scenarios.                                            *)
(***************************************************************************)
twosum == <<"t","w","o","s","u","m">>

sum == <<"s","u","m">>

alice == <<"a","l","i","c","e">>

bob == <<"b","o","b">>

ghost == <<"g","h","o","s","t">>

Python3 == <<"P","y","t","h","o","n"," ","3">>

Cpp == <<"C","+","+">>

\* a language that neither table maps
Brainf == <<"B","r","a","i","n","f">>

(***************************************************************************)
(* The variables.                                                          *)
(***************************************************************************)
VARIABLES
  nz_in,      \* normalize_problem_code: the code first passed in
  nz_out,     \* normalize_problem_code: the results of the successive calls
  fn_user,    \* filename scenario: the username
  fn_id,      \* filename scenario: the submission id (0: a file with none)
  fn_lang,    \* filename scenario: the language name
  filename,   \* filename scenario: the file name built, <<>> before
  extracted,  \* filename scenario: what extract_username returned, as <<v>>
  store,      \* the SimilarityScore table: a set of rows
  matrix,     \* what read_similarity_matrix returned, as <<key, result>>
  users,      \* the usernames of the User table
  sources,    \* the ids of the submissions that have a SubmissionSource
  reports,    \* the report files on disk: [path, rows]
  zips,       \* the bucket archives on disk: [path, files]
  final_zips, \* the final archives on disk: [path, entries]
  stamp,      \* the number of report directories the tool has written
  pc,         \* where the request or call stands
  caller,     \* "view": a request; "direct": extract_similarity_data alone
  contest_key,      \* the contest key of the request or call
  problems_left,    \* the problems the loop has still to take
  lang_buckets,     \* the buckets of the current problem still to handle
  lang_zip_paths,   \* the bucket archives written by the run, in order
  used_ports,       \* the run's set of handed-out ports
  free_port,        \* the port found for the current bucket
  invocations,      \* the tool invocations of the run, in order
  report_csv_paths, \* the report paths handed to extract_similarity_data
  similarity_data,  \* the aggregated data
  exc,              \* the exception that ended the request or call, or ""
  response,         \* what the request answered, or ""
  runs,             \* the number of requests started
  dolos_log,        \* the messages the run printed about the detection tool
  writers,          \* concurrent runs storing scores: [key, triples, next, found]
  port_call,        \* find_free_port alone: its arguments and its result
  campaign,         \* the BulkEmailCampaign row: [status, emails_sent, emails_failed]
  recipients,       \* the EmailRecipient rows of the campaign: [valid, status]
  email_tasks,      \* the recipients whose send_single_email task is queued
  completion_check  \* whether a check_campaign_completion task is scheduled

codecVars == <<nz_in, nz_out, fn_user, fn_id, fn_lang, filename, extracted>>

matrixVars == <<matrix>>

worldVars == <<users, sources, reports, zips, final_zips, stamp>>

runVars ==
  <<pc, caller, contest_key, problems_left, lang_buckets, lang_zip_paths,
    used_ports, free_port, invocations, report_csv_paths, similarity_data,
    exc, response, runs, dolos_log>>

runVarsButPc ==
  <<caller, contest_key, problems_left, lang_buckets, lang_zip_paths,
    used_ports, free_port, invocations, report_csv_paths, similarity_data,
    exc, response, runs, dolos_log>>

pipeVars == <<worldVars, runVars>>

mailVars == <<campaign, recipients, email_tasks, completion_check>>

sideVars == <<port_call, mailVars>>

vars == <<sideVars, codecVars, store, writers, matrixVars, pipeVars>>

(***************************************************************************)
(* Identity codec.                                                         *)
(***************************************************************************)
\* a plausible slip: keep the first segment only (name.split('_')[0])
extract_username_first_segment(fname) ==
  LET name  == RSplit1Head(fname, ".")
      parts == Split(name, "_")
  IN  IF Len(parts) >= 2 /\ IsDigit(Last(parts)) THEN parts[1] ELSE name

extract_username(fname) ==
  LET name  == RSplit1Head(fname, ".")
      parts == Split(name, "_")
  IN  IF Len(parts) >= 2 /\ IsDigit(Last(parts))
      THEN Join(Front(parts), "_")
      ELSE name

\* the loop of normalize_problem_code from the i-th language on
RECURSIVE NormalizeFrom(_, _)
NormalizeFrom(code, i) ==
  IF i > Len(NormalizeLanguages) THEN code
  ELSE LET suffix == RemoveChar(NormalizeLanguages[i], " ")
       IN  IF EndsWith(code, suffix)
           THEN DropLast(code, Len(suffix))
           ELSE NormalizeFrom(code, i + 1)

normalize_problem_code(code) == NormalizeFrom(code, 1)

\* the grouper's file name: f"{username}_{sub_id}.{ext}"
SubmissionFilename(username, sub_id, lang) ==
  username \o <<"_">> \o IntStr(sub_id) \o <<".">>
    \o DictGet(LANGUAGE_EXTENSIONS, lang, <<"t","x","t">>)

(***************************************************************************)
(* Scenario: normalize_problem_code applied again and again to its own     *)
(* result.                                                                 *)
(***************************************************************************)
NormalizeSuffixes ==
  {<<>>, <<"C","p","p">>} \cup
  {RemoveChar(NormalizeLanguages[i], " ") : i \in 1..Len(NormalizeLanguages)}

NormalizeBases == {<<>>, twosum, <<"a","1">>}

NormalizeInputs ==
  {b \o s1 \o s2 : b \in NormalizeBases, s1 \in NormalizeSuffixes,
                   s2 \in NormalizeSuffixes}

CodecIdle ==
  /\ nz_in = <<>> /\ nz_out = <<>>
  /\ fn_user = <<>> /\ fn_id = 0 /\ fn_lang = <<>>
  /\ filename = <<>> /\ extracted = <<>>

MatrixIdle == matrix = <<>>

WritersIdle == writers = <<>>

MailIdle ==
  /\ campaign = <<>> /\ recipients = <<>> /\ email_tasks = {}
  /\ completion_check = FALSE

SideIdle == port_call = <<>> /\ MailIdle

PipeIdle ==
  /\ users = {} /\ sources = {} /\ reports = {} /\ zips = {}
  /\ final_zips = {} /\ stamp = 0
  /\ pc = "none" /\ caller = "" /\ contest_key = <<>>
  /\ problems_left = <<>> /\ lang_buckets = <<>> /\ lang_zip_paths = <<>>
  /\ used_ports = {} /\ free_port = 0 /\ invocations = <<>>
  /\ report_csv_paths = <<>> /\ similarity_data = <<>>
  /\ exc = "" /\ response = "" /\ runs = 0 /\ dolos_log = <<>>

InitNormalize ==
  /\ nz_in \in NormalizeInputs
  /\ nz_out = <<>>
  /\ fn_user = <<>> /\ fn_id = 0 /\ fn_lang = <<>>
  /\ filename = <<>> /\ extracted = <<>>
  /\ store = {} /\ MatrixIdle /\ WritersIdle /\ SideIdle /\ PipeIdle

NormalizeCall ==
  /\ Len(nz_out) < MaxCalls
  /\ nz_out' = Append(nz_out,
                 normalize_problem_code(IF nz_out = <<>> THEN nz_in
                                        ELSE Last(nz_out)))
  /\ UNCHANGED <<nz_in, fn_user, fn_id, fn_lang, filename, extracted>>
  /\ UNCHANGED <<sideVars, store, writers, matrixVars, pipeVars>>

NextNormalize == NormalizeCall

SpecNormalize == InitNormalize /\ [][NextNormalize]_vars

(***************************************************************************)
(* Scenario: a file name is built, by the grouper or without a submission  *)
(* id, and extract_username is applied to it.                              *)
(***************************************************************************)
NameAlphabet == {"a", "_", "7", "."}

RECURSIVE StringsOfLen(_)
StringsOfLen(n) ==
  IF n = 0 THEN {<<>>}
  ELSE {Append(s, c) : s \in StringsOfLen(n - 1), c \in NameAlphabet}

Usernames == UNION {StringsOfLen(n) : n \in 1..MaxNameLen}

FilenameLanguages == {Python3, Cpp, Brainf}

InitUsername ==
  /\ nz_in = <<>> /\ nz_out = <<>>
  /\ fn_user \in Usernames
  /\ fn_id \in 0..MaxSubId
  /\ fn_lang \in FilenameLanguages
  /\ filename = <<>> /\ extracted = <<>>
  /\ store = {} /\ MatrixIdle /\ WritersIdle /\ SideIdle /\ PipeIdle

\* download_problem_submissions builds the name of a submission's file
GrouperFilename ==
  /\ filename = <<>> /\ fn_id > 0
  /\ filename' = SubmissionFilename(fn_user, fn_id, fn_lang)
  /\ UNCHANGED <<nz_in, nz_out, fn_user, fn_id, fn_lang, extracted>>
  /\ UNCHANGED <<sideVars, store, writers, matrixVars, pipeVars>>

\* a file <name>.<ext> that carries no submission id
PlainFilename ==
  /\ filename = <<>> /\ fn_id = 0
  /\ filename' = fn_user \o <<".">>
                   \o DictGet(LANGUAGE_EXTENSIONS, fn_lang, <<"t","x","t">>)
  /\ UNCHANGED <<nz_in, nz_out, fn_user, fn_id, fn_lang, extracted>>
  /\ UNCHANGED <<sideVars, store, writers, matrixVars, pipeVars>>

ExtractUsernameCall ==
  /\ filename # <<>> /\ extracted = <<>>
  /\ extracted' = <<extract_username(filename)>>
  /\ UNCHANGED <<nz_in, nz_out, fn_user, fn_id, fn_lang, filename>>
  /\ UNCHANGED <<sideVars, store, writers, matrixVars, pipeVars>>

NextUsername == GrouperFilename \/ PlainFilename \/ ExtractUsernameCall

SpecUsername == InitUsername /\ [][NextUsername]_vars

(***************************************************************************)
(* Ordering of strings (Python compares code points) and sorted().         *)
(***************************************************************************)
\* the characters of the model in code-point order
CodePointOrder ==
  << " ", "%", "+", "-", ".",
     "0", "1", "2", "3", "4", "5", "6", "7", "8", "9",
     "A", "B", "C", "D", "E", "F", "G", "H", "I", "J", "K", "L", "M",
     "N", "O", "P", "Q", "R", "S", "T", "U", "V", "W", "X", "Y", "Z",
     "_",
     "a", "b", "c", "d", "e", "f", "g", "h", "i", "j", "k", "l", "m",
     "n", "o", "p", "q", "r", "s", "t", "u", "v", "w", "x", "y", "z" >>

CodePoint(c) == CHOOSE i \in 1..Len(CodePointOrder) : CodePointOrder[i] = c

\* a < b for Python strings
RECURSIVE StrLess(_, _)
StrLess(a, b) ==
  IF b = <<>> THEN FALSE
  ELSE IF a = <<>> THEN TRUE
  ELSE IF a[1] = b[1] THEN StrLess(Tail(a), Tail(b))
  ELSE CodePoint(a[1]) < CodePoint(b[1])

\* a plausible slip: sorted(S, reverse=True)
RECURSIVE SortedStringsDescending(_)
SortedStringsDescending(S) ==
  IF S = {} THEN <<>>
  ELSE LET greatest == CHOOSE x \in S : \A y \in S \ {x} : StrLess(y, x)
       IN  <<greatest>> \o SortedStringsDescending(S \ {greatest})

\* sorted(S) for a set S of strings
RECURSIVE SortedStrings(_)
SortedStrings(S) ==
  IF S = {} THEN <<>>
  ELSE LET least == CHOOSE x \in S : \A y \in S \ {x} : StrLess(x, y)
       IN  <<least>> \o SortedStrings(S \ {least})

\* the orders in which the elements of a finite set can be iterated
RECURSIVE Orderings(_)
Orderings(S) ==
  IF S = {} THEN {<<>>}
  ELSE UNION {{<<x>> \o rest : rest \in Orderings(S \ {x})} : x \in S}

\* the pairs <<i, j>> of a set in lexicographic order
RECURSIVE SortedPairs(_)
SortedPairs(S) ==
  IF S = {} THEN <<>>
  ELSE LET least == CHOOSE x \in S : \A y \in S :
                      x[1] < y[1] \/ (x[1] = y[1] /\ x[2] <= y[2])
       IN  <<least>> \o SortedPairs(S \ {least})

Max2(a, b) == IF a >= b THEN a ELSE b

(***************************************************************************)
(* The Score Store: SimilarityScore rows                                   *)
(* [contest, user, problem_code, similarity_percent]; user is the          *)
(* username of the row's user.                                             *)
(***************************************************************************)
c1 == <<"c","1">>

c2 == <<"c","2">>

\* a contest key no contest has
c3 == <<"c","3">>

\* the contests of the database
Contests == {c1, c2}

ScoreRow(contest, user, code, percent) ==
  [contest |-> contest, user |-> user, problem_code |-> code,
   similarity_percent |-> percent]

SameKey(r, contest, user, code) ==
  r.contest = contest /\ r.user = user /\ r.problem_code = code

\* a plausible slip: create() where update_or_create() was meant
insert_always(table, contest, user, code, percent) ==
  table \cup {ScoreRow(contest, user, code, percent)}

\* a plausible slip: the rows of the contest are cleared before the new
\* one is stored
replace_contest_rows(table, contest, user, code, percent) ==
  {r \in table : r.contest # contest}
    \cup {ScoreRow(contest, user, code, percent)}

\* a plausible slip: the greater of the stored and the new percent is kept
update_or_create_max(table, contest, user, code, percent) ==
  {r \in table : ~SameKey(r, contest, user, code)}
    \cup {ScoreRow(contest, user, code,
            IF \E r \in table : /\ SameKey(r, contest, user, code)
                                /\ r.similarity_percent > percent
            THEN (CHOOSE r \in table : SameKey(r, contest, user, code)).similarity_percent
            ELSE percent)}

\* SimilarityScore.objects.update_or_create(contest, user, problem_code,
\*   defaults={'similarity_percent': percent})
update_or_create(table, contest, user, code, percent) ==
  {r \in table : ~SameKey(r, contest, user, code)}
    \cup {ScoreRow(contest, user, code, percent)}

(***************************************************************************)
(* Matrix builder.                                                         *)
(***************************************************************************)
\* f"{score:.2f}%" for a score of p hundredths of a percent
FormatPercent(p) ==
  IntStr(p \div 100) \o <<".">> \o <<DigitChars[((p \div 10) % 10) + 1]>>
    \o <<DigitChars[(p % 10) + 1]>> \o <<"%">>

\* a plausible slip: the later row wins instead of the greater one
FoldScoreLast(acc, score) ==
  LET k == <<normalize_problem_code(score.problem_code), score.user>>
  IN  (k :> score.similarity_percent) @@ acc

\* a plausible slip: the first row read wins
FoldScoreFirst(acc, score) ==
  LET k == <<normalize_problem_code(score.problem_code), score.user>>
  IN  IF k \notin DOMAIN acc
      THEN (k :> score.similarity_percent) @@ acc
      ELSE acc

\* one turn of the loop over the rows: normalized_scores[problem][user]
FoldScore(acc, score) ==
  LET k == <<normalize_problem_code(score.problem_code), score.user>>
  IN  IF k \notin DOMAIN acc
      THEN (k :> score.similarity_percent) @@ acc
      ELSE (k :> Max2(acc[k], score.similarity_percent)) @@ acc

RECURSIVE FoldScores(_, _)
FoldScores(acc, scores) ==
  IF scores = <<>> THEN acc
  ELSE FoldScores(FoldScore(acc, scores[1]), Tail(scores))

\* read_similarity_matrix once the rows of the contest are read, in the
\* order the query returned them
MatrixOfScores(scores) ==
  LET usernames  == SortedStrings({scores[i].user : i \in 1..Len(scores)})
      normalized == FoldScores(<<>>, scores)
      problems   == SortedStrings({k[1] : k \in DOMAIN normalized})
  IN  [headers |-> problems,
       rows    |-> [u \in 1..Len(usernames) |->
                     <<usernames[u]>> \o
                     [p \in 1..Len(problems) |->
                        FormatPercent(
                          IF <<problems[p], usernames[u]>> \in DOMAIN normalized
                          THEN normalized[<<problems[p], usernames[u]>>]
                          ELSE 0)]]]

EmptyMatrix == [headers |-> <<>>, rows |-> <<>>]

\* the matrix requests of the scenario: contest keys
MatrixKeys == {c1, c2, c3}

\* read_similarity_matrix(contest_key); the query has no order_by, so the
\* rows come in some order
ReadSimilarityMatrix ==
  /\ matrix = <<>>
  /\ \E key \in MatrixKeys :
       IF key \notin Contests \/ {r \in store : r.contest = key} = {}
       THEN matrix' = <<key, EmptyMatrix>>
       ELSE \E scores \in Orderings({r \in store : r.contest = key}) :
              matrix' = <<key, MatrixOfScores(scores)>>
  /\ UNCHANGED <<sideVars, codecVars, writers, store, pipeVars>>

(***************************************************************************)
(* Scenario: a Score Store with a few rows, and one matrix request.        *)
(***************************************************************************)
twosumPython3 == twosum \o <<"P","y","t","h","o","n","3">>

twosumCpp == twosum \o <<"C","p","p">>

twosumCPlusPlus == twosum \o <<"C","+","+">>

MatrixCodes == {sum, twosum, twosumPython3, twosumCpp, twosumCPlusPlus}

MatrixPercents == {5, 8000, 9500}

MatrixKeysOfRows ==
  {<<c1, u, p>> : u \in {alice, bob}, p \in MatrixCodes}
    \cup {<<c2, alice, twosum>>}

\* the stores of at most MaxRows rows, one row per key
MatrixStores ==
  UNION {[K -> MatrixPercents] :
           K \in {K \in SUBSET MatrixKeysOfRows : Cardinality(K) <= MaxRows}}

InitMatrix ==
  /\ CodecIdle /\ WritersIdle /\ SideIdle
  /\ \E f \in MatrixStores :
       store = {ScoreRow(k[1], k[2], k[3], f[k]) : k \in DOMAIN f}
  /\ matrix = <<>>
  /\ PipeIdle

NextMatrix == ReadSimilarityMatrix

SpecMatrix == InitMatrix /\ [][NextMatrix]_vars

(***************************************************************************)
(* Paths are sequences of components; os.path.basename is the last         *)
(* component and os.path.dirname the components before it.                 *)
(***************************************************************************)
Basename(path) == IF path = <<>> THEN <<>> ELSE Last(path)

Dirname(path) == IF path = <<>> THEN <<>> ELSE Front(path)

\* the module-level timestamp, set once when the module is imported
timestamp ==
  <<"2","0","2","6","_","1","1","_","0","2","_","_","_",
    "1","8","_","0","0","_","0","0">>

\* tmp_dir of a run for contest_key, below base_dir
TmpDir(key) ==
  << <<"s","u","b","m","i","s","s","i","o","n","s">>,
     <<"c","o","n","t","e","s","t","_">> \o key \o <<"_">> \o timestamp >>

PairsCsv == <<"p","a","i","r","s",".","c","s","v">>

\* os.path.exists(path) for a report file
ReportExists(fs, path) == \E r \in fs : r.path = path

ReportRows(fs, path) == (CHOOSE r \in fs : r.path = path).rows

(***************************************************************************)
(* Report aggregator: extract_similarity_data.                             *)
(* similarity_data, a defaultdict of defaultdict(float), is a sequence of  *)
(* [user, problems] in insertion order, problems a sequence of             *)
(* [code, score] in insertion order.                                       *)
(***************************************************************************)
\* the problem code read off the report's parent directory
ProblemCodeOfReport(path) ==
  LET parent_dir   == Basename(Dirname(path))
      problem_code == Last(Split(parent_dir, "-"))
  IN  IF EndsWith(problem_code, <<"s","u","b","m","i","s","s","i","o","n","s">>)
      THEN DropLast(problem_code, 11)
      ELSE problem_code

IndexOfUser(data, user) ==
  IF \E i \in 1..Len(data) : data[i].user = user
  THEN CHOOSE i \in 1..Len(data) : data[i].user = user
  ELSE 0

IndexOfCode(problems, code) ==
  IF \E i \in 1..Len(problems) : problems[i].code = code
  THEN CHOOSE i \in 1..Len(problems) : problems[i].code = code
  ELSE 0

\* a plausible slip: the later row wins instead of the greater one
MergeLast(problems, code, similarity) ==
  IF IndexOfCode(problems, code) = 0
  THEN Append(problems, [code |-> code, score |-> similarity])
  ELSE [problems EXCEPT ![IndexOfCode(problems, code)].score = similarity]

\* problems[code] = max(problems[code], similarity), problems[code]
\* defaulting to 0.0
MergeMax(problems, code, similarity) ==
  IF IndexOfCode(problems, code) = 0
  THEN Append(problems, [code |-> code, score |-> Max2(0, similarity)])
  ELSE [problems EXCEPT ![IndexOfCode(problems, code)].score =
                           Max2(@, similarity)]

\* similarity_data[user][code] = max(similarity_data[user][code], similarity)
SimilarityUpdate(data, user, code, similarity) ==
  IF IndexOfUser(data, user) = 0
  THEN Append(data, [user |-> user,
                     problems |-> MergeMax(<<>>, code, similarity)])
  ELSE [data EXCEPT ![IndexOfUser(data, user)].problems =
                       MergeMax(@, code, similarity)]

\* one row of a report
FoldRow(data, code, row) ==
  LET user1 == extract_username(Basename(row.leftFilePath))
      user2 == extract_username(Basename(row.rightFilePath))
  IN  SimilarityUpdate(SimilarityUpdate(data, user1, code, row.similarity),
                       user2, code, row.similarity)

RECURSIVE FoldRows(_, _, _)
FoldRows(data, code, rows) ==
  IF rows = <<>> THEN data
  ELSE FoldRows(FoldRow(data, code, rows[1]), code, Tail(rows))

\* a plausible repair, used to show that the claims about missing reports
\* rest on the loop: a missing report is skipped
RECURSIVE ReadReportsSkipping(_, _, _)
ReadReportsSkipping(paths, data, fs) ==
  IF paths = <<>> THEN [data |-> data, exc |-> ""]
  ELSE IF ~ReportExists(fs, paths[1])
       THEN ReadReportsSkipping(Tail(paths), data, fs)
       ELSE ReadReportsSkipping(Tail(paths),
              FoldRows(data, ProblemCodeOfReport(paths[1]),
                       ReportRows(fs, paths[1])), fs)

\* the loop over report_csv_paths: a missing path is printed and then
\* opened all the same, and open() raises
RECURSIVE ReadReports(_, _, _)
ReadReports(paths, data, fs) ==
  IF paths = <<>> THEN [data |-> data, exc |-> ""]
  ELSE IF ~ReportExists(fs, paths[1])
       THEN [data |-> data, exc |-> "FileNotFoundError"]
       ELSE ReadReports(Tail(paths),
              FoldRows(data, ProblemCodeOfReport(paths[1]),
                       ReportRows(fs, paths[1])), fs)

\* the (username, problem_code, score) triples in iteration order
Triples(data) ==
  LET RECURSIVE OfUser(_, _)
      OfUser(user, problems) ==
        IF problems = <<>> THEN <<>>
        ELSE <<[user |-> user, code |-> problems[1].code,
                score |-> problems[1].score]>>
             \o OfUser(user, Tail(problems))
      RECURSIVE All(_)
      All(d) == IF d = <<>> THEN <<>>
                ELSE OfUser(d[1].user, d[1].problems) \o All(Tail(d))
  IN  All(data)

\* a plausible slip: the conversion to a percentage applied twice
PercentOfPercent(score) == score * 100 * 100

\* score * 100
PercentOfScore(score) == score * 100

\* the loop that stores the triples: the contest and the user are looked
\* up with get(), which raises DoesNotExist
RECURSIVE PersistTriples(_, _, _, _)
PersistTriples(triples, key, table, userTable) ==
  IF triples = <<>> THEN [store |-> table, exc |-> ""]
  ELSE IF key \notin Contests
       THEN [store |-> table, exc |-> "Contest.DoesNotExist"]
  ELSE IF triples[1].user \notin userTable
       THEN [store |-> table, exc |-> "User.DoesNotExist"]
  ELSE PersistTriples(Tail(triples), key,
         update_or_create(table, key, triples[1].user, triples[1].code,
                          PercentOfScore(triples[1].score)),
         userTable)

\* extract_similarity_data, lines 43-68: the reports are read
ExtractRead ==
  /\ pc = "extract_read"
  /\ LET got == ReadReports(report_csv_paths, <<>>, reports)
     IN  /\ similarity_data' = got.data
         /\ exc' = got.exc
         /\ pc' = IF got.exc = "" THEN "extract_persist" ELSE "raised"
  /\ UNCHANGED <<sideVars, codecVars, writers, store, matrixVars, worldVars, caller, contest_key,
                 problems_left, lang_buckets, lang_zip_paths, used_ports,
                 free_port, invocations, report_csv_paths, response, runs, dolos_log>>

\* extract_similarity_data, lines 72-87: the triples are stored and the
\* data returned to the caller
ExtractPersist ==
  /\ pc = "extract_persist"
  /\ LET got == PersistTriples(Triples(similarity_data), contest_key, store,
                               users)
     IN  /\ store' = got.store
         /\ exc' = got.exc
         /\ pc' = IF got.exc # "" THEN "raised"
                  ELSE IF caller = "direct" THEN "returned" ELSE "persist"
  /\ UNCHANGED <<sideVars, codecVars, writers, matrixVars, worldVars, caller, contest_key,
                 problems_left, lang_buckets, lang_zip_paths, used_ports,
                 free_port, invocations, report_csv_paths, similarity_data,
                 response, runs, dolos_log>>

(***************************************************************************)
(* Scenario: extract_similarity_data called with a list of report paths.   *)
(***************************************************************************)
\* file paths as the tool reports them
FilePath(name) == << <<"u","n","z","i","p">>, name >>

ReportRow(left, right, similarity) ==
  [leftFilePath |-> FilePath(left), rightFilePath |-> FilePath(right),
   similarity |-> similarity]

ExtractFiles ==
  [a |-> SubmissionFilename(alice, 1, Python3),
   b |-> SubmissionFilename(bob, 2, Python3),
   g |-> SubmissionFilename(ghost, 3, Python3)]

ExtractRowChoices ==
  { ReportRow(ExtractFiles.a, ExtractFiles.b, 30),
    ReportRow(ExtractFiles.b, ExtractFiles.a, 70),
    ReportRow(ExtractFiles.g, ExtractFiles.a, 70) }

\* the sequences without repetition of at most n elements of S
RECURSIVE SeqsNoRepeat(_, _)
SeqsNoRepeat(S, n) ==
  IF n = 0 THEN {<<>>}
  ELSE {<<>>} \cup
       UNION {{<<x>> \o rest : rest \in SeqsNoRepeat(S \ {x}, n - 1)} : x \in S}

\* the sequences of at most n elements of S
RECURSIVE SeqsUpTo(_, _)
SeqsUpTo(S, n) ==
  IF n = 0 THEN {<<>>}
  ELSE {<<>>} \cup {<<x>> \o rest : x \in S, rest \in SeqsUpTo(S, n - 1)}

ReportDirName(stampNo, stem) ==
  <<"d","o","l","o","s","-","r","e","p","o","r","t","-">>
    \o IntStr(stampNo) \o <<"-">> \o stem

ExtractPaths ==
  { TmpDir(c1) \o << ReportDirName(n, twosumPython3 \o
                       <<"s","u","b","m","i","s","s","i","o","n","s">>),
                     PairsCsv >> : n \in 1..2 }

InitExtract ==
  /\ CodecIdle /\ MatrixIdle /\ WritersIdle /\ SideIdle
  /\ store = {}
  /\ users = {alice, bob}
  /\ sources = {}
  /\ \E present \in SUBSET ExtractPaths :
       \E content \in [present -> SeqsNoRepeat(ExtractRowChoices, MaxRowsPerReport)] :
          reports = {[path |-> p, rows |-> content[p]] : p \in present}
  /\ zips = {} /\ final_zips = {} /\ stamp = 0
  /\ pc = "extract_read" /\ caller = "direct"
  /\ contest_key \in {c1, c3}
  /\ report_csv_paths \in SeqsUpTo(ExtractPaths, MaxPaths)
  /\ problems_left = <<>> /\ lang_buckets = <<>> /\ lang_zip_paths = <<>>
  /\ used_ports = {} /\ free_port = 0 /\ invocations = <<>>
  /\ similarity_data = <<>> /\ exc = "" /\ response = "" /\ runs = 0
  /\ dolos_log = <<>>

NextExtract == ExtractRead \/ ExtractPersist

SpecExtract == InitExtract /\ [][NextExtract]_vars

(***************************************************************************)
(* Port allocator.                                                         *)
(***************************************************************************)
\* start_port as download_problem_submissions passes it
start_port == 3001

\* max_port: the model scans PortRange ports instead of the default's 99
max_port == start_port + PortRange

SetMin(S) == CHOOSE x \in S : \A y \in S : x <= y

\* a plausible slip: the port found is not recorded
find_free_port_unrecorded(first, limit, used, listening) ==
  LET free == {p \in first..(limit - 1) : p \notin used /\ p \notin listening}
  IN  IF free = {} THEN [port |-> 0, used_ports |-> used]
      ELSE [port |-> SetMin(free), used_ports |-> used]

\* a plausible slip: the probe's test inverted (== 0), so that a port is
\* taken when something listens on it
find_free_port_probe_inverted(first, limit, used, listening) ==
  LET free == {p \in first..(limit - 1) : p \notin used /\ p \in listening}
  IN  IF free = {} THEN [port |-> 0, used_ports |-> used]
      ELSE [port |-> SetMin(free), used_ports |-> used \cup {SetMin(free)}]

\* find_free_port(start_port, max_port, used_ports): listening holds the
\* ports on which connect_ex succeeds; port 0 stands for the RuntimeError
find_free_port(first, limit, used, listening) ==
  LET free == {p \in first..(limit - 1) : p \notin used /\ p \notin listening}
  IN  IF free = {} THEN [port |-> 0, used_ports |-> used]
      ELSE [port |-> SetMin(free), used_ports |-> used \cup {SetMin(free)}]

(***************************************************************************)
(* Scenario: find_free_port called once, with some start_port, some set    *)
(* of ports handed out before and some ports on which a server listens.    *)
(***************************************************************************)
PortCandidates == start_port..max_port

InitPorts ==
  /\ CodecIdle /\ MatrixIdle /\ WritersIdle /\ MailIdle /\ PipeIdle
  /\ store = {}
  /\ \E first \in start_port..(start_port + 1) :
       \E used \in SUBSET PortCandidates :
         \E listening \in SUBSET (start_port..(max_port - 1)) :
           port_call = [start_port |-> first, max_port |-> max_port,
                        used_ports |-> used, listening |-> listening,
                        result |-> <<>>]

FindFreePortCall ==
  /\ port_call.result = <<>>
  /\ port_call' =
       [port_call EXCEPT !.result =
          <<find_free_port(port_call.start_port, port_call.max_port,
                           port_call.used_ports, port_call.listening)>>]
  /\ UNCHANGED <<mailVars, codecVars, store, writers, matrixVars, pipeVars>>

NextPorts == FindFreePortCall

SpecPorts == InitPorts /\ [][NextPorts]_vars

(***************************************************************************)
(* The database the requests read: contests with their problems, users,    *)
(* accepted and rejected submissions.                                      *)
(***************************************************************************)
bob_smith == <<"b","o","b","_","s","m","i","t","h">>

AllUsers == {alice, bob, bob_smith}

\* contest.problems.all()
ContestProblems(key) ==
  IF key = c1 THEN <<twosum, sum>> ELSE IF key = c2 THEN <<twosum>> ELSE <<>>

Submission(id, user, problem, lang, result) ==
  [id |-> id, user |-> user, contest |-> c1, problem |-> problem,
   lang |-> lang, result |-> result]

\* the ContestSubmission rows, in the order the query returns them
Submissions ==
  << Submission(1, alice, twosum, Brainf, "AC"),
     Submission(2, alice, twosum, Python3, "AC"),
     Submission(3, bob, twosum, Python3, "AC"),
     Submission(4, bob_smith, twosum, Python3, "AC"),
     Submission(5, bob, twosum, Python3, "WA"),
     Submission(6, alice, sum, Cpp, "AC"),
     Submission(7, bob, sum, Cpp, "AC"),
     [Submission(8, alice, twosum, Python3, "AC") EXCEPT !.contest = c2],
     [Submission(9, bob, twosum, Python3, "AC") EXCEPT !.contest = c2] >>

SubmissionIds == {Submissions[i].id : i \in 1..Len(Submissions)}

\* a plausible slip: the filter on submission__result left out
AcceptedSubmissionsAnyResult(key, problem, userTable) ==
  SelectSeq(Submissions,
            LAMBDA s : /\ s.contest = key /\ s.problem = problem
                       /\ s.user \in userTable)

\* ContestSubmission.objects.filter(problem__problem=problem,
\*   problem__contest=contest, submission__result='AC'); the submissions of
\*   a deleted user are deleted with the user
AcceptedSubmissions(key, problem, userTable) ==
  SelectSeq(Submissions,
            LAMBDA s : /\ s.contest = key /\ s.problem = problem
                       /\ s.result = "AC" /\ s.user \in userTable)

(***************************************************************************)
(* Submission grouper.                                                     *)
(***************************************************************************)
IndexOfLang(buckets, lang) ==
  IF \E i \in 1..Len(buckets) : buckets[i].lang = lang
  THEN CHOOSE i \in 1..Len(buckets) : buckets[i].lang = lang
  ELSE 0

\* lang_buckets.setdefault(lang, []).append(filename)
BucketAppend(buckets, lang, fname) ==
  IF IndexOfLang(buckets, lang) = 0
  THEN Append(buckets, [lang |-> lang, files |-> <<fname>>])
  ELSE [buckets EXCEPT ![IndexOfLang(buckets, lang)].files = Append(@, fname)]

\* a plausible slip: SubmissionSource.DoesNotExist is not caught
RECURSIVE GroupLoopUncaught(_, _, _)
GroupLoopUncaught(subs, buckets, sourceTable) ==
  IF subs = <<>> THEN [buckets |-> buckets, exc |-> ""]
  ELSE IF subs[1].id \notin sourceTable
       THEN [buckets |-> buckets, exc |-> "SubmissionSource.DoesNotExist"]
       ELSE GroupLoopUncaught(Tail(subs),
              BucketAppend(buckets, subs[1].lang,
                SubmissionFilename(subs[1].user, subs[1].id, subs[1].lang)),
              sourceTable)

\* the loop over the accepted submissions of one problem: a submission
\* without source is printed and skipped
RECURSIVE GroupLoop(_, _, _)
GroupLoop(subs, buckets, sourceTable) ==
  IF subs = <<>> THEN [buckets |-> buckets, exc |-> ""]
  ELSE IF subs[1].id \notin sourceTable
       THEN GroupLoop(Tail(subs), buckets, sourceTable)
       ELSE GroupLoop(Tail(subs),
              BucketAppend(buckets, subs[1].lang,
                SubmissionFilename(subs[1].user, subs[1].id, subs[1].lang)),
              sourceTable)

(***************************************************************************)
(* Archive names and the detection tool.                                   *)
(***************************************************************************)
\* a plausible slip: the language name is used as it is
ZipFilenameKeepingSpaces(problem_code, lang) ==
  problem_code \o <<"_">> \o lang
    \o <<"_","s","u","b","m","i","s","s","i","o","n","s",".","z","i","p">>

\* f"{problem_code}_{lang.replace(' ', '_')}_submissions.zip"
ZipFilename(problem_code, lang) ==
  problem_code \o <<"_">> \o ReplaceChar(lang, " ", "_")
    \o <<"_","s","u","b","m","i","s","s","i","o","n","s",".","z","i","p">>

ZipPath(key, problem_code, lang) ==
  TmpDir(key) \o <<ZipFilename(problem_code, lang)>>

FinalZipPath(key) ==
  TmpDir(key) \o << key \o <<"_","g","r","o","u","p","e","d","_","s","u","b",
                               "m","i","s","s","i","o","n","s",".","z","i","p">> >>

\* a plausible slip: the extension table, with its default, is consulted
LangFlagFromExtensions(lang) ==
  DictGet(LANGUAGE_EXTENSIONS, lang, <<"t","x","t">>)

\* DOLOS_LANGUAGE_FLAGS.get(lang, None); <<>> stands for None
LangFlag(lang) == DictGet(DOLOS_LANGUAGE_FLAGS, lang, <<>>)

AlnumChars ==
  {CodePointOrder[i] : i \in 1..Len(CodePointOrder)}
    \ {" ", "%", "+", "-", ".", "_"}

\* the name the tool gives its report directory for an archive, as the
\* aggregator expects it: dolos-report-<stamp>-<archive name without .zip,
\* letters and digits only>
ToolReportDir(stampNo, zip_filename) ==
  ReportDirName(stampNo,
    SelectSeq(DropLast(zip_filename, 4), LAMBDA c : c \in AlnumChars))

\* the similarities the tool may report
ToolSimilarities == {30, 100}

\* the pairs.csv contents the tool may write for an archive: one row for
\* every pair of its files
ToolReports(files) ==
  LET pairs == {ij \in (1..Len(files)) \X (1..Len(files)) : ij[1] < ij[2]}
      order == SortedPairs(pairs)
  IN  { [k \in 1..Len(order) |->
           ReportRow(files[order[k][1]], files[order[k][2]], sims[order[k]])] :
        sims \in [pairs -> ToolSimilarities] }

(***************************************************************************)
(* The orchestrator: download_problem_submissions.                         *)
(***************************************************************************)
RequestKeys == {c1, c3}

\* a plausible slip: find_free_port called without used_ports, so that the
\* default set, created once when the function is defined, is the one
\* every run records its ports in
RunLocalsResetSharingPorts ==
  /\ lang_buckets' = <<>> /\ lang_zip_paths' = <<>> /\ used_ports' = used_ports
  /\ free_port' = 0 /\ invocations' = <<>> /\ report_csv_paths' = <<>>
  /\ similarity_data' = <<>> /\ response' = "" /\ dolos_log' = <<>>

\* lines 118-119 and the locals of the view: every run starts with lists
\* and a used-port set of its own
RunLocalsReset ==
  /\ lang_buckets' = <<>> /\ lang_zip_paths' = <<>> /\ used_ports' = {}
  /\ free_port' = 0 /\ invocations' = <<>> /\ report_csv_paths' = <<>>
  /\ similarity_data' = <<>> /\ response' = "" /\ dolos_log' = <<>>

\* lines 105-119: the contest is looked up, the requester checked, the
\* run's lists created.  HttpResponseForbidden is not imported, so the
\* refusal raises NameError
StartRun(key, authorized) ==
  /\ runs' = runs + 1
  /\ caller' = "view"
  /\ RunLocalsReset
  /\ contest_key' = key
  /\ IF key \notin Contests
     THEN pc' = "raised" /\ exc' = "Contest.DoesNotExist"
            /\ problems_left' = <<>>
     ELSE IF ~authorized
     THEN pc' = "raised" /\ exc' = "NameError" /\ problems_left' = <<>>
     ELSE pc' = "group" /\ exc' = ""
            /\ problems_left' = ContestProblems(key)

\* a request reaches download_problem_submissions
Request ==
  /\ pc = "idle"
  /\ \E key \in RequestKeys, authorized \in BOOLEAN : StartRun(key, authorized)
  /\ UNCHANGED <<sideVars, codecVars, writers, store, matrixVars, worldVars>>

\* lines 122-152: the next problem's accepted submissions are bucketed by
\* language; after the last problem the reports are collected
Group ==
  /\ pc = "group"
  /\ IF problems_left = <<>>
     THEN pc' = "glob" /\ UNCHANGED <<lang_buckets, problems_left, exc>>
     ELSE LET got == GroupLoop(AcceptedSubmissions(contest_key,
                                 Head(problems_left), users), <<>>, sources)
          IN  IF got.exc # ""
              THEN pc' = "raised" /\ exc' = got.exc
                     /\ UNCHANGED <<lang_buckets, problems_left>>
              ELSE IF got.buckets = <<>>
              THEN pc' = "group" /\ problems_left' = Tail(problems_left)
                     /\ UNCHANGED <<lang_buckets, exc>>
              ELSE pc' = "zip" /\ lang_buckets' = got.buckets
                     /\ UNCHANGED <<problems_left, exc>>
  /\ UNCHANGED <<sideVars, codecVars, writers, store, matrixVars, worldVars, caller,
                 contest_key, lang_zip_paths, used_ports, free_port,
                 invocations, report_csv_paths, similarity_data, response,
                 runs, dolos_log>>

\* the bucket in hand is done: on to the next one, or to the next problem
NextBucket ==
  /\ lang_buckets' = Tail(lang_buckets)
  /\ IF Len(lang_buckets) > 1
     THEN pc' = "zip" /\ UNCHANGED problems_left
     ELSE pc' = "group" /\ problems_left' = Tail(problems_left)

CurrentZipPath ==
  ZipPath(contest_key, Head(problems_left), Head(lang_buckets).lang)

\* lines 155-161: the bucket's archive is written and its path recorded
BucketZip ==
  /\ pc = "zip"
  /\ lang_zip_paths' = Append(lang_zip_paths, CurrentZipPath)
  /\ zips' = {z \in zips : z.path # CurrentZipPath}
               \cup {[path |-> CurrentZipPath,
                      files |-> Head(lang_buckets).files]}
  /\ pc' = "detect"
  /\ UNCHANGED <<sideVars, codecVars, writers, store, matrixVars, users, sources,
                 reports, final_zips, stamp, caller, contest_key,
                 problems_left, lang_buckets, used_ports, free_port,
                 invocations, report_csv_paths, similarity_data, exc,
                 response, runs, dolos_log>>

\* the messages of lines 177 and 179 for the bucket in hand: e names the
\* exception caught, "" when the bucket is skipped for want of a flag
Message(e) == [zip |-> Basename(CurrentZipPath), e |-> e]

\* lines 163-166 and 176-179: without a flag the bucket is skipped; with
\* one a port is looked for, and the RuntimeError of an exhausted range is
\* caught by the bucket's except, which ends the bucket
BucketDetect ==
  /\ pc = "detect"
  /\ IF LangFlag(Head(lang_buckets).lang) = <<>>
     THEN /\ NextBucket
          /\ dolos_log' = Append(dolos_log, Message(""))
          /\ UNCHANGED <<used_ports, free_port>>
     ELSE \E listening \in SUBSET (start_port..(max_port - 1)) :
            LET got == find_free_port(start_port, max_port, used_ports,
                                      listening)
            IN  /\ used_ports' = got.used_ports
                /\ IF got.port = 0
                   THEN /\ NextBucket
                        /\ dolos_log' =
                             Append(dolos_log, Message("RuntimeError"))
                        /\ UNCHANGED free_port
                   ELSE /\ free_port' = got.port
                        /\ pc' = "web"
                        /\ UNCHANGED <<lang_buckets, problems_left, dolos_log>>
  /\ UNCHANGED <<sideVars, codecVars, writers, store, matrixVars, worldVars, caller,
                 contest_key, lang_zip_paths, invocations, report_csv_paths,
                 similarity_data, exc, response, runs>>

\* both processes started with Popen: neither is waited for
InvocationDetached(mode, port, returncode) ==
  [mode |-> mode, flag |-> LangFlag(Head(lang_buckets).lang), port |-> port,
   zip |-> CurrentZipPath, returncode |-> "None"]

\* one tool process: returncode is "None" for the web-mode process, which
\* is started and never waited for, and the exit status of the CSV-mode
\* process, which subprocess.run waits for and whose status nothing reads
Invocation(mode, port, returncode) ==
  [mode |-> mode, flag |-> LangFlag(Head(lang_buckets).lang), port |-> port,
   zip |-> CurrentZipPath, returncode |-> returncode]

\* the web-mode process run with subprocess.run: the tool serves the
\* report until it is stopped, so the call does not return
BucketWebWaited ==
  /\ pc = "web"
  /\ invocations' = Append(invocations, Invocation("web", free_port, "None"))
  /\ pc' = "serving"
  /\ UNCHANGED <<sideVars, codecVars, writers, store, matrixVars, worldVars, caller,
                 contest_key, problems_left, lang_buckets, lang_zip_paths,
                 used_ports, free_port, report_csv_paths, similarity_data,
                 exc, response, runs, dolos_log>>

\* lines 167-169: the web-mode process is started and left alone; a spawn
\* error is caught by the bucket's except, which ends the bucket
BucketWeb ==
  /\ pc = "web"
  /\ \/ /\ invocations' =
             Append(invocations, Invocation("web", free_port, "None"))
        /\ pc' = "csv"
        /\ UNCHANGED <<lang_buckets, problems_left, dolos_log>>
     \/ /\ NextBucket
        /\ dolos_log' = Append(dolos_log, Message("OSError"))
        /\ UNCHANGED invocations
  /\ UNCHANGED <<sideVars, codecVars, writers, store, matrixVars, worldVars, caller,
                 contest_key, lang_zip_paths, used_ports, free_port,
                 report_csv_paths, similarity_data, exc, response, runs>>

\* str.replace(old, new)
RECURSIVE ReplaceAll(_, _, _)
ReplaceAll(s, old, new) ==
  IF Len(s) < Len(old) THEN s
  ELSE IF SubSeq(s, 1, Len(old)) = old
       THEN new \o ReplaceAll(SubSeq(s, Len(old) + 1, Len(s)), old, new)
       ELSE <<s[1]>> \o ReplaceAll(Tail(s), old, new)

\* csv_output_path = zip_path.replace(".zip", "_report.csv")
CsvOutputPath(zip_path) ==
  [i \in 1..Len(zip_path) |->
     ReplaceAll(zip_path[i], <<".","z","i","p">>,
                <<"_","r","e","p","o","r","t",".","c","s","v">>)]

\* a report on the tool's standard output: nothing reads it back, so one
\* content stands for all
ToolStdoutReport(files) ==
  CHOOSE rows \in ToolReports(files) :
    \A k \in 1..Len(rows) : rows[k].similarity = 100

\* the pairs.csv the tool writes for the bucket in hand, in a report
\* directory of its own below tmp_dir (the working directory of the tool)
ToolReportPath ==
  TmpDir(contest_key)
    \o <<ToolReportDir(stamp + 1, Basename(CurrentZipPath)), PairsCsv>>

\* lines 171-177: csv_output_path is opened for writing and the CSV-mode
\* run waited for.  The run may fail to start (caught); once started it
\* ends with some exit status, which is not read, and leaves no report, or
\* pairs.csv in a report directory of its own, or the report on its
\* standard output, that is in csv_output_path
BucketCsv ==
  /\ pc = "csv"
  /\ LET out    == CsvOutputPath(CurrentZipPath)
         others == {r \in reports : r.path # out}
         empty  == [path |-> out, rows |-> <<>>]
     IN  \/ /\ reports' = others \cup {empty}
            /\ dolos_log' = Append(dolos_log, Message("OSError"))
            /\ UNCHANGED <<invocations, stamp>>
         \/ \E returncode \in {"0", "1"} :
              /\ invocations' =
                   Append(invocations, Invocation("csv", 0, returncode))
              /\ UNCHANGED dolos_log
              /\ \/ /\ reports' = others \cup {empty}
                    /\ UNCHANGED stamp
                 \/ /\ stamp' = stamp + 1
                    /\ \E rows \in ToolReports(Head(lang_buckets).files) :
                         reports' = others \cup
                           {empty, [path |-> ToolReportPath, rows |-> rows]}
                 \/ /\ returncode = "0"
                    /\ UNCHANGED stamp
                    /\ reports' = others \cup
                         {[path |-> out,
                           rows |-> ToolStdoutReport(Head(lang_buckets).files)]}
  /\ NextBucket
  /\ UNCHANGED <<sideVars, codecVars, writers, store, matrixVars, users, sources, zips,
                 final_zips, caller, contest_key, lang_zip_paths, used_ports,
                 free_port, report_csv_paths, similarity_data, exc, response,
                 runs>>

\* fnmatch of a directory name against dolos-report-*
IsReportDir(name) ==
  /\ Len(name) >= 13
  /\ SubSeq(name, 1, 13) = <<"d","o","l","o","s","-","r","e","p","o","r","t","-">>

\* the files that tmp_dir/dolos-report-*/pairs.csv matches
GlobMatches(fs, tmp_dir) ==
  {r.path : r \in {r \in fs : /\ Len(r.path) = Len(tmp_dir) + 2
                              /\ Dirname(Dirname(r.path)) = tmp_dir
                              /\ IsReportDir(Basename(Dirname(r.path)))
                              /\ Basename(r.path) = PairsCsv}}

\* line 183: glob.glob(tmp_dir/dolos-report-*/pairs.csv), in some order
Glob ==
  /\ pc = "glob"
  /\ report_csv_paths' \in Orderings(GlobMatches(reports, TmpDir(contest_key)))
  /\ pc' = "extract_read"
  /\ UNCHANGED <<sideVars, codecVars, writers, store, matrixVars, worldVars, caller,
                 contest_key, problems_left, lang_buckets, lang_zip_paths,
                 used_ports, free_port, invocations, similarity_data, exc,
                 response, runs, dolos_log>>

\* next((k for k in scores if code in k), None), <<>> standing for None
MatchingKey(problems, code) ==
  IF \E i \in 1..Len(problems) : Contains(problems[i].code, code)
  THEN problems[CHOOSE i \in 1..Len(problems) :
                  /\ Contains(problems[i].code, code)
                  /\ \A j \in 1..(i - 1) : ~Contains(problems[j].code, code)].code
  ELSE <<>>

\* (scores[matching_key] * 100) if matching_key else 0.0
SimPercent(problems, code) ==
  IF MatchingKey(problems, code) # <<>>
  THEN problems[IndexOfCode(problems, MatchingKey(problems, code))].score * 100
  ELSE 0

\* lines 193-203: one row per problem of the contest for one user
RECURSIVE PersistProblems(_, _, _, _, _)
PersistProblems(table, key, user, problems, codes) ==
  IF codes = <<>> THEN table
  ELSE PersistProblems(
         update_or_create(table, key, user, codes[1],
                          SimPercent(problems, codes[1])),
         key, user, problems, Tail(codes))

\* lines 186-203: the users of sim_data; a user that does not exist is
\* printed and skipped
RECURSIVE PersistUsers(_, _, _, _)
PersistUsers(table, key, data, userTable) ==
  IF data = <<>> THEN table
  ELSE IF data[1].user \notin userTable
       THEN PersistUsers(table, key, Tail(data), userTable)
       ELSE PersistUsers(
              PersistProblems(table, key, data[1].user, data[1].problems,
                              ContestProblems(key)),
              key, Tail(data), userTable)

PersistLoop ==
  /\ pc = "persist"
  /\ store' = PersistUsers(store, contest_key, similarity_data, users)
  /\ pc' = "final_zip"
  /\ UNCHANGED <<sideVars, codecVars, writers, matrixVars, worldVars, caller, contest_key,
                 problems_left, lang_buckets, lang_zip_paths, used_ports,
                 free_port, invocations, report_csv_paths, similarity_data,
                 exc, response, runs, dolos_log>>

\* lines 205-209: every recorded bucket archive is stored in the final
\* archive under its base name
FinalZip ==
  /\ pc = "final_zip"
  /\ final_zips' =
       {z \in final_zips : z.path # FinalZipPath(contest_key)} \cup
       {[path |-> FinalZipPath(contest_key),
         entries |-> [i \in 1..Len(lang_zip_paths) |->
                        [arcname |-> Basename(lang_zip_paths[i]),
                         files |-> (CHOOSE z \in zips :
                                      z.path = lang_zip_paths[i]).files]]]}
  /\ pc' = "respond"
  /\ UNCHANGED <<sideVars, codecVars, writers, store, matrixVars, users, sources, reports, zips,
                 stamp, runVarsButPc>>

\* lines 212-213: the final archive is the response
Respond ==
  /\ pc = "respond"
  /\ response' = "FileResponse"
  /\ pc' = "done"
  /\ UNCHANGED <<sideVars, codecVars, writers, store, matrixVars, worldVars, caller, contest_key,
                 problems_left, lang_buckets, lang_zip_paths, used_ports,
                 free_port, invocations, report_csv_paths, similarity_data,
                 exc, runs, dolos_log>>

\* the users an administrator may delete while requests are served
DeletableUsers == {bob}

\* a user is deleted: the rows that refer to the user go with it
\* (on_delete=CASCADE)
DeleteUser ==
  /\ pc \notin {"none", "done", "raised"}
  /\ \E u \in DeletableUsers \cap users :
       /\ users' = users \ {u}
       /\ store' = {r \in store : r.user # u}
  /\ UNCHANGED <<sideVars, codecVars, writers, matrixVars, sources, reports, zips, final_zips,
                 stamp, runVars>>

(***************************************************************************)
(* The requests of one server process.                                     *)
(***************************************************************************)
\* the accepted submissions of the contests requested: the source of some
\* of them may be missing
AcceptedIds ==
  {Submissions[i].id : i \in {i \in 1..Len(Submissions) :
                                 /\ Submissions[i].result = "AC"
                                 /\ Submissions[i].contest \in RequestKeys}}

Init ==
  /\ CodecIdle /\ MatrixIdle /\ WritersIdle /\ SideIdle
  /\ store = {}
  /\ users = AllUsers
  /\ \E missing \in {m \in SUBSET AcceptedIds : Cardinality(m) <= MaxMissing} :
       sources = SubmissionIds \ missing
  /\ reports = {} /\ zips = {} /\ final_zips = {} /\ stamp = 0
  /\ pc = "idle" /\ caller = "view" /\ contest_key = <<>>
  /\ problems_left = <<>> /\ lang_buckets = <<>> /\ lang_zip_paths = <<>>
  /\ used_ports = {} /\ free_port = 0 /\ invocations = <<>>
  /\ report_csv_paths = <<>> /\ similarity_data = <<>>
  /\ exc = "" /\ response = "" /\ runs = 0 /\ dolos_log = <<>>

Next ==
  \/ Request \/ Group \/ BucketZip \/ BucketDetect \/ BucketWeb \/ BucketCsv
  \/ Glob \/ ExtractRead \/ ExtractPersist \/ PersistLoop \/ FinalZip
  \/ Respond \/ DeleteUser

Spec == Init /\ [][Next]_vars

(***************************************************************************)
(* Requests served one after the other by one server process, for the      *)
(* contest c2 with its single bucket: the module's timestamp, the files    *)
(* below tmp_dir and the Score Store outlive every request.                *)
(***************************************************************************)
RerunKeys == {c2}

\* a request reaches download_problem_submissions once the previous one
\* is answered
RequestAgain ==
  /\ pc \in {"idle", "done", "raised"}
  /\ runs < MaxRuns
  /\ \E key \in RerunKeys : StartRun(key, TRUE)
  /\ UNCHANGED <<sideVars, codecVars, writers, store, matrixVars, worldVars>>

InitRerun == Init /\ sources = SubmissionIds

NextRerun ==
  \/ RequestAgain \/ Group \/ BucketZip \/ BucketDetect \/ BucketWeb
  \/ BucketCsv \/ Glob \/ ExtractRead \/ ExtractPersist \/ PersistLoop
  \/ FinalZip \/ Respond

SpecRerun == InitRerun /\ [][NextRerun]_vars

(***************************************************************************)
(* One authorized run for the contest c2 to its end.  Every statement of   *)
(* the view is executed in its turn; subprocess.run returns when the       *)
(* CSV-mode process exits, which is up to the tool: the process may also   *)
(* never exit, and then the call never returns.                            *)
(***************************************************************************)
LiveKeys == {c2}

RequestLive ==
  /\ pc = "idle"
  /\ \E key \in LiveKeys : StartRun(key, TRUE)
  /\ UNCHANGED <<sideVars, codecVars, writers, store, matrixVars, worldVars>>

\* lines 172-175 when the CSV-mode process never exits: csv_output_path
\* has been opened for writing, the process started, and subprocess.run
\* waits for ever (no timeout is passed)
BucketCsvHangs ==
  /\ pc = "csv"
  /\ reports' = {r \in reports : r.path # CsvOutputPath(CurrentZipPath)}
                  \cup {[path |-> CsvOutputPath(CurrentZipPath), rows |-> <<>>]}
  /\ invocations' = Append(invocations, Invocation("csv", 0, "None"))
  /\ pc' = "hung"
  /\ UNCHANGED <<sideVars, codecVars, writers, store, matrixVars, users, sources, zips,
                 final_zips, stamp, caller, contest_key, problems_left,
                 lang_buckets, lang_zip_paths, used_ports, free_port,
                 report_csv_paths, similarity_data, exc, response, runs,
                 dolos_log>>

InitLive == Init /\ sources = SubmissionIds

NextLive ==
  \/ RequestLive \/ Group \/ BucketZip \/ BucketDetect \/ BucketWeb
  \/ BucketCsv \/ BucketCsvHangs \/ Glob \/ ExtractRead \/ ExtractPersist
  \/ PersistLoop \/ FinalZip \/ Respond

SpecLive == InitLive /\ [][NextLive]_vars /\ WF_vars(NextLive)

(***************************************************************************)
(* A run from the aggregation on, over a Score Store that earlier runs     *)
(* have filled, with one matrix request served meanwhile.                  *)
(***************************************************************************)
\* the rows earlier runs may have left
FrameRows ==
  {ScoreRow(c1, alice, twosumPython3, 9500), ScoreRow(c1, bob, twosumCpp, 8000),
   ScoreRow(c1, alice, sum, 5), ScoreRow(c2, alice, twosum, 8000),
   ScoreRow(c2, bob, twosumPython3, 9500)}

\* the files of the twosum / Python 3 bucket of either contest
FrameFiles ==
  <<SubmissionFilename(alice, 2, Python3), SubmissionFilename(bob, 3, Python3)>>

FrameZip(key) == ZipPath(key, twosum, Python3)

FrameReportPath(key) ==
  TmpDir(key) \o <<ToolReportDir(1, Basename(FrameZip(key))), PairsCsv>>

\* the run has archived its bucket, invoked the tool twice and globbed the
\* one report the tool wrote
InitFrame ==
  /\ CodecIdle /\ MatrixIdle /\ WritersIdle /\ SideIdle
  /\ store \in SUBSET FrameRows
  /\ users = AllUsers /\ sources = SubmissionIds
  /\ contest_key \in Contests
  /\ \E rows \in ToolReports(FrameFiles) :
       reports = {[path |-> CsvOutputPath(FrameZip(contest_key)), rows |-> <<>>],
                  [path |-> FrameReportPath(contest_key), rows |-> rows]}
  /\ zips = {[path |-> FrameZip(contest_key), files |-> FrameFiles]}
  /\ final_zips = {} /\ stamp = 1
  /\ pc = "extract_read" /\ caller = "view"
  /\ problems_left = <<>> /\ lang_buckets = <<>>
  /\ lang_zip_paths = <<FrameZip(contest_key)>>
  /\ used_ports = {start_port} /\ free_port = start_port
  /\ invocations =
       << [mode |-> "web", flag |-> LangFlag(Python3), port |-> start_port,
           zip |-> FrameZip(contest_key), returncode |-> "None"],
          [mode |-> "csv", flag |-> LangFlag(Python3), port |-> 0,
           zip |-> FrameZip(contest_key), returncode |-> "0"] >>
  /\ report_csv_paths = <<FrameReportPath(contest_key)>>
  /\ similarity_data = <<>> /\ exc = "" /\ response = "" /\ runs = 1
  /\ dolos_log = <<>>

NextFrame ==
  \/ ExtractRead \/ ExtractPersist \/ PersistLoop \/ FinalZip \/ Respond
  \/ ReadSimilarityMatrix

SpecFrame == InitFrame /\ [][NextFrame]_vars

(***************************************************************************)
(* Runs that store their scores at the same time.  update_or_create is a   *)
(* get followed by a save, the steps of runs served by different workers   *)
(* interleave, and unique_together is what the database checks on every    *)
(* insert.                                                                 *)
(***************************************************************************)
Writers == {1, 2}

\* the similarity the tool reported in the run of writer w
WriterSimilarity(w) == IF w = 1 THEN 30 ELSE 100

\* the (username, problem_code, percent) triples a run may have to store:
\* the report keys of extract_similarity_data and the problem codes of
\* download_problem_submissions
WriterTriples(w) ==
  {[user |-> u, code |-> c, percent |-> PercentOfScore(WriterSimilarity(w))] :
     u \in {alice, bob}, c \in {twosum, twosumPython3}}

\* the insert of a new row: under unique_together the database refuses a
\* second row of the same key, upon which update_or_create reads the row
\* that is there and updates it
create_unique(table, contest, user, code, percent) ==
  IF \E r \in table : SameKey(r, contest, user, code)
  THEN update_or_create(table, contest, user, code, percent)
  ELSE table \cup {ScoreRow(contest, user, code, percent)}

\* the triple writer w is about to store
WriterTriple(w) == writers[w].triples[writers[w].next]

\* update_or_create, first half: the row is looked up
WriterGet(w) ==
  /\ writers[w].next <= Len(writers[w].triples)
  /\ writers[w].found = ""
  /\ writers' =
       [writers EXCEPT ![w].found =
          IF \E r \in store : SameKey(r, writers[w].key, WriterTriple(w).user,
                                      WriterTriple(w).code)
          THEN "yes" ELSE "no"]
  /\ UNCHANGED <<sideVars, codecVars, store, matrixVars, pipeVars>>

\* update_or_create, second half: the row found is updated, or a new row
\* is inserted
WriterSave(w) ==
  /\ writers[w].next <= Len(writers[w].triples)
  /\ writers[w].found # ""
  /\ store' =
       IF writers[w].found = "yes"
       THEN update_or_create(store, writers[w].key, WriterTriple(w).user,
                             WriterTriple(w).code, WriterTriple(w).percent)
       ELSE create_unique(store, writers[w].key, WriterTriple(w).user,
                          WriterTriple(w).code, WriterTriple(w).percent)
  /\ writers' = [writers EXCEPT ![w].found = "", ![w].next = @ + 1]
  /\ UNCHANGED <<sideVars, codecVars, matrixVars, pipeVars>>

InitStore ==
  /\ CodecIdle /\ MatrixIdle /\ SideIdle /\ PipeIdle
  /\ store = {}
  /\ \E k1 \in Contests, k2 \in Contests :
       \E t1 \in SeqsNoRepeat(WriterTriples(1), MaxWrites) :
         \E t2 \in SeqsNoRepeat(WriterTriples(2), MaxWrites) :
           writers = << [key |-> k1, triples |-> t1, next |-> 1, found |-> ""],
                        [key |-> k2, triples |-> t2, next |-> 1, found |-> ""] >>

NextStore == \E w \in Writers : WriterGet(w) \/ WriterSave(w)

SpecStore == InitStore /\ [][NextStore]_vars

(***************************************************************************)
(* Bulk emailing: one campaign and its recipients.  send_bulk_email_campaign *)
(* queues one send_single_email task per recipient and schedules           *)
(* check_campaign_completion; the tasks are run by the workers in any      *)
(* order, and between the two halves of a send_single_email task other     *)
(* tasks may run.                                                          *)
(***************************************************************************)
\* EmailRecipient.objects.filter(campaign=campaign, status=...).count()
CountStatus(rows, statuses) ==
  Cardinality({r \in DOMAIN rows : rows[r].status \in statuses})

\* BulkEmailCampaign.mark_as_completed on the campaign object c, whose
\* counters are those the object was loaded or last assigned with
mark_as_completed(c) ==
  [c EXCEPT !.status =
     IF c.emails_failed = 0 THEN "sent"
     ELSE IF c.emails_sent = 0 THEN "failed"
     ELSE "partially_sent"]

InitMail ==
  /\ CodecIdle /\ MatrixIdle /\ WritersIdle /\ PipeIdle
  /\ store = {} /\ port_call = <<>>
  /\ campaign = [status |-> "draft", emails_sent |-> 0, emails_failed |-> 0]
  /\ \E n \in 1..MaxRecipients :
       recipients \in [1..n -> [valid : BOOLEAN, status : {"pending"}]]
  /\ email_tasks = {}
  /\ completion_check = FALSE

\* send_bulk_email_campaign: the campaign is marked as processing; every
\* pending recipient with a valid address gets a send_single_email task,
\* unless queueing it fails, which marks the recipient as failed; a
\* recipient with an invalid address is marked invalid.  The campaign's
\* counters are not touched.  check_campaign_completion is scheduled
SendBulkEmailCampaign ==
  /\ campaign.status = "draft"
  /\ \E unqueued \in SUBSET {r \in DOMAIN recipients : recipients[r].valid} :
       /\ recipients' =
            [r \in DOMAIN recipients |->
               IF ~recipients[r].valid
               THEN [recipients[r] EXCEPT !.status = "invalid"]
               ELSE IF r \in unqueued
               THEN [recipients[r] EXCEPT !.status = "failed"]
               ELSE recipients[r]]
       /\ email_tasks' =
            {[recipient |-> r, stage |-> "queued", campaign |-> <<>>] :
               r \in {r \in DOMAIN recipients : recipients[r].valid} \ unqueued}
  /\ campaign' = [campaign EXCEPT !.status = "processing"]
  /\ completion_check' = TRUE
  /\ UNCHANGED <<port_call, codecVars, store, writers, matrixVars, pipeVars>>

\* send_single_email, first half: the mail is sent or send_mail raises,
\* the recipient is marked, the campaign loaded and its two counters
\* recounted and saved
SendSingleEmail(t) ==
  /\ t \in email_tasks /\ t.stage = "queued"
  /\ \E outcome \in {"sent", "failed"} :
       LET marked  == [recipients EXCEPT ![t.recipient].status = outcome]
           counted == [campaign EXCEPT
                         !.emails_sent = CountStatus(marked, {"sent"}),
                         !.emails_failed =
                            CountStatus(marked, {"failed", "invalid"})]
       IN  /\ recipients' = marked
           /\ campaign' = counted
           /\ email_tasks' =
                (email_tasks \ {t}) \cup
                  {[t EXCEPT !.stage = "counted", !.campaign = counted]}
  /\ UNCHANGED <<port_call, completion_check, codecVars, store, writers,
                 matrixVars, pipeVars>>

\* send_single_email, second half: when no recipient is pending and the
\* campaign object of the task is processing, the object is marked as
\* completed and its status saved
SendSingleEmailComplete(t) ==
  /\ t \in email_tasks /\ t.stage = "counted"
  /\ campaign' =
       IF /\ CountStatus(recipients, {"pending"}) = 0
          /\ t.campaign.status = "processing"
       THEN [campaign EXCEPT
               !.status = mark_as_completed(t.campaign).status]
       ELSE campaign
  /\ email_tasks' = email_tasks \ {t}
  /\ UNCHANGED <<port_call, recipients, completion_check, codecVars, store,
                 writers, matrixVars, pipeVars>>

\* check_campaign_completion: nothing to do for a campaign that is
\* completed; with no recipient pending the campaign is marked as
\* completed; otherwise the check is scheduled again
CheckCampaignCompletion ==
  /\ completion_check
  /\ IF campaign.status \in {"sent", "failed", "partially_sent"}
     THEN completion_check' = FALSE /\ UNCHANGED campaign
     ELSE IF CountStatus(recipients, {"pending"}) = 0
     THEN /\ campaign' = mark_as_completed(campaign)
          /\ completion_check' = FALSE
     ELSE UNCHANGED <<campaign, completion_check>>
  /\ UNCHANGED <<port_call, recipients, email_tasks, codecVars, store,
                 writers, matrixVars, pipeVars>>

NextMail ==
  \/ SendBulkEmailCampaign
  \/ \E t \in email_tasks : SendSingleEmail(t) \/ SendSingleEmailComplete(t)
  \/ CheckCampaignCompletion

SpecMail == InitMail /\ [][NextMail]_vars

(***************************************************************************)
(* C1: normalize_problem_code is idempotent: for every input x,            *)
(* normalize(normalize(x)) = normalize(x).  A second call on the result    *)
(* of the first returns it unchanged.                                      *)
(***************************************************************************)
NormalizeIdempotent == Len(nz_out) >= 2 => nz_out[2] = nz_out[1]

(***************************************************************************)
(* C6: extract_username returns <name> for every <name>_<digits>.<ext>,    *)
(* names with underscores included, so it inverts the grouper's file name  *)
(* for every username; and it returns <name> for <name>.<ext> when the     *)
(* last underscore-separated segment of <name> is not purely numeric.      *)
(***************************************************************************)
ExtractUsernameInvertsFilename ==
  extracted # <<>> =>
    /\ fn_id > 0 => extracted[1] = fn_user
    /\ (fn_id = 0 /\ ~IsDigit(Last(Split(fn_user, "_"))))
         => extracted[1] = fn_user

ExtractUsernameWitness ==
  /\ extracted = <<fn_user>>
  /\ fn_id > 9
  /\ "_" \in Range(fn_user)
  /\ "." \in Range(fn_user)

(***************************************************************************)
(* C2 as stated: the rows (c1, alice, twosumPython3): 80.0 and             *)
(* (c1, alice, twosumCpp): 95.0 give headers [twosum] and the row          *)
(* [alice, 95.00%].                                                        *)
(***************************************************************************)
CppVariantRows ==
  {ScoreRow(c1, alice, twosumPython3, 8000), ScoreRow(c1, alice, twosumCpp, 9500)}

CppVariantsGiveOneHeader ==
  (matrix # <<>> /\ matrix[1] = c1 /\ store = CppVariantRows) =>
     matrix[2] = [headers |-> <<twosum>>,
                  rows |-> << <<alice, <<"9","5",".","0","0","%">> >> >>]

(***************************************************************************)
(* C2 as amended: when the rows of a contest are all rows of one user and  *)
(* their codes are one problem code followed by language suffixes of       *)
(* normalize_problem_code's list, the matrix has the                       *)
(* single header that they normalize to and the single cell of the         *)
(* maximum percent: twosumPython3: 80.0 and twosumC++: 95.0 give [twosum]  *)
(* and [alice, 95.00%].                                                    *)
(***************************************************************************)
RowsOf(key) == {r \in store : r.contest = key}

MaxPercent(rows) ==
  CHOOSE m \in {r.similarity_percent : r \in rows} :
    \A r \in rows : r.similarity_percent <= m

LanguageVariantsGiveOneHeader ==
  (matrix # <<>> /\ matrix[1] \in Contests /\ RowsOf(matrix[1]) # {}) =>
    \A u \in {alice, bob} : \A p \in {sum, twosum} :
      (\A r \in RowsOf(matrix[1]) :
          /\ r.user = u
          /\ \E i \in 1..Len(NormalizeLanguages) :
               r.problem_code = p \o RemoveChar(NormalizeLanguages[i], " "))
      => matrix[2] = [headers |-> <<p>>,
                      rows |-> << <<u, FormatPercent(MaxPercent(RowsOf(matrix[1])))>> >>]

LanguageVariantsWitness ==
  /\ matrix # <<>> /\ matrix[1] = c1
  /\ store = {ScoreRow(c1, alice, twosumPython3, 8000),
              ScoreRow(c1, alice, twosumCPlusPlus, 9500)}
  /\ matrix[2] = [headers |-> <<twosum>>,
                  rows |-> << <<alice, <<"9","5",".","0","0","%">> >> >>]

(***************************************************************************)
(* C3: extract_similarity_data skips every report path that does not      *)
(* exist, aggregates and stores the rows of the existing reports, and a    *)
(* missing report never raises to the caller.                              *)
(***************************************************************************)
MissingReportIsSkipped ==
  /\ exc # "FileNotFoundError"
  /\ pc = "returned" =>
       similarity_data = ReadReportsSkipping(report_csv_paths, <<>>, reports).data

(***************************************************************************)
(* C4: a triple whose user or contest does not exist is skipped when the   *)
(* scores are stored: no exception propagates and every other triple is    *)
(* upserted.                                                               *)
(***************************************************************************)
UnknownTripleIsSkipped ==
  /\ exc \notin {"User.DoesNotExist", "Contest.DoesNotExist"}
  /\ pc = "returned" =>
       \A i \in 1..Len(Triples(similarity_data)) :
         LET t == Triples(similarity_data)[i]
         IN  (t.user \in users /\ contest_key \in Contests) =>
               ScoreRow(contest_key, t.user, t.code, PercentOfScore(t.score))
                 \in store

(***************************************************************************)
(* C8: the aggregated value of (user, problem) is the maximum similarity   *)
(* over the rows of the reports of that problem in which the user owns the *)
(* left or the right file, whatever the order of the rows and of the       *)
(* report files; a pair without such a row has no value.                   *)
(***************************************************************************)
\* the similarities of the rows that concern user and code, over the paths
RowSimilarities(user, code) ==
  { ReportRows(reports, report_csv_paths[i])[j].similarity :
      <<i, j>> \in
        { ij \in (1..Len(report_csv_paths)) \X (1..MaxRowsPerReport + 1) :
            /\ ProblemCodeOfReport(report_csv_paths[ij[1]]) = code
            /\ ij[2] <= Len(ReportRows(reports, report_csv_paths[ij[1]]))
            /\ LET row == ReportRows(reports, report_csv_paths[ij[1]])[ij[2]]
               IN  user \in {extract_username(Basename(row.leftFilePath)),
                             extract_username(Basename(row.rightFilePath))} } }

AggregatedValues(user, code) ==
  { t.score : t \in { Triples(similarity_data)[i] :
                        i \in 1..Len(Triples(similarity_data)) } \cap
                    { t \in [user : {user}, code : {code}, score : 0..100] : TRUE } }

AggregationIsMaximum ==
  (caller = "direct" /\ pc \in {"extract_persist", "returned"}) =>
    \A user \in {alice, bob, ghost} : \A code \in {twosumPython3, twosum} :
      IF RowSimilarities(user, code) = {}
      THEN AggregatedValues(user, code) = {}
      ELSE AggregatedValues(user, code) =
             { CHOOSE m \in RowSimilarities(user, code) :
                 \A s \in RowSimilarities(user, code) : s <= m }

AggregationWitness ==
  /\ caller = "direct" /\ pc = "returned"
  /\ Len(report_csv_paths) = 2 /\ report_csv_paths[1] # report_csv_paths[2]
  /\ ReportRows(reports, report_csv_paths[1])
       = << ReportRow(ExtractFiles.b, ExtractFiles.a, 70) >>
  /\ ReportRows(reports, report_csv_paths[2])
       = << ReportRow(ExtractFiles.a, ExtractFiles.b, 30) >>
  /\ AggregatedValues(alice, twosumPython3) = {70}
  /\ AggregatedValues(bob, twosumPython3) = {70}

(***************************************************************************)
(* C5: no failure of a submission, a bucket, a report or a score triple    *)
(* aborts an authorized run: the only requests that end in an exception    *)
(* are those refused at the door (unknown contest, requester not allowed). *)
(***************************************************************************)
AuthorizedRunNeverAborts ==
  (caller = "view" /\ pc = "raised") =>
     (exc \in {"NameError", "Contest.DoesNotExist"} /\ lang_zip_paths = <<>>)

(***************************************************************************)
(* C7: every port find_free_port hands out was not in used_ports when the  *)
(* call started and is in used_ports when it returns, and the ports handed *)
(* to the tool invocations of one run are pairwise distinct.               *)
(***************************************************************************)
WebInvocations == {i \in 1..Len(invocations) : invocations[i].mode = "web"}

PortsNeverReused ==
  /\ [][(pc = "detect" /\ pc' = "web") =>
          (free_port' \notin used_ports /\ free_port' \in used_ports')]_vars
  /\ [](\A i \in WebInvocations : \A j \in WebInvocations :
          i # j => invocations[i].port # invocations[j].port)

PortsWitness ==
  /\ Cardinality(WebInvocations) = 2
  /\ \E i \in WebInvocations : invocations[i].port = start_port + 1
  /\ \E i \in WebInvocations : invocations[i].port = start_port
  /\ used_ports = {start_port, start_port + 1}

(***************************************************************************)
(* C9: a submission whose source cannot be retrieved is skipped and        *)
(* nothing else: no exception reaches the caller, every bucket archive     *)
(* holds only files of accepted submissions of its problem and language    *)
(* that have a source, and once the buckets are done every such            *)
(* submission of the contest (of a user not deleted meanwhile) has its     *)
(* file in its bucket's archive.                                           *)
(***************************************************************************)
SubmissionSet == {Submissions[i] : i \in 1..Len(Submissions)}

BucketsDone ==
  /\ caller = "view"
  /\ pc \in {"glob", "extract_read", "extract_persist", "persist",
              "final_zip", "respond", "done"}

MissingSourceSkipsOnlyThatSubmission ==
  /\ exc # "SubmissionSource.DoesNotExist"
  /\ \A z \in zips : \A k \in 1..Len(z.files) :
       \E s \in SubmissionSet :
          /\ s.result = "AC" /\ s.id \in sources
          /\ z.files[k] = SubmissionFilename(s.user, s.id, s.lang)
          /\ z.path = ZipPath(s.contest, s.problem, s.lang)
  /\ BucketsDone =>
       \A s \in SubmissionSet :
         (/\ s.contest = contest_key /\ s.result = "AC"
          /\ s.id \in sources /\ s.user \in users) =>
            \E z \in zips :
               /\ z.path = ZipPath(s.contest, s.problem, s.lang)
               /\ SubmissionFilename(s.user, s.id, s.lang) \in Range(z.files)

MissingSourceWitness ==
  /\ pc = "done" /\ 3 \notin sources /\ users = AllUsers
  /\ \E z \in zips :
       /\ z.path = ZipPath(c1, twosum, Python3)
       /\ z.files = << SubmissionFilename(alice, 2, Python3),
                       SubmissionFilename(bob_smith, 4, Python3) >>

(***************************************************************************)
(* C10: for a bucket whose language has no detection-tool flag no port is  *)
(* allocated and the tool is not invoked; its archive is written all the   *)
(* same, the run goes on with the next bucket, and the final archive holds *)
(* an entry for every bucket archive of the run, this one included.        *)
(***************************************************************************)
Unflagged(lang) ==
  \A i \in 1..Len(DOLOS_LANGUAGE_FLAGS) : DOLOS_LANGUAGE_FLAGS[i][1] # lang

UnflaggedZips ==
  {ZipPath(c1, p, Brainf) : p \in {twosum, sum}}

UnflaggedBucketIsArchivedNotDetected ==
  /\ [][(pc = "detect" /\ Unflagged(Head(lang_buckets).lang)) =>
          /\ used_ports' = used_ports
          /\ invocations' = invocations
          /\ pc' \in {"detect", "zip", "group"}
          /\ exc' = ""
          /\ \E z \in zips : z.path = CurrentZipPath
          /\ Last(lang_zip_paths) = CurrentZipPath]_vars
  /\ [](\A i \in 1..Len(invocations) : invocations[i].zip \notin UnflaggedZips)
  /\ [](pc \in {"respond", "done"} =>
          \E f \in final_zips :
             /\ f.path = FinalZipPath(contest_key)
             /\ \A i \in 1..Len(lang_zip_paths) :
                  \E k \in 1..Len(f.entries) :
                     f.entries[k].arcname = Basename(lang_zip_paths[i]))

UnflaggedBucketWitness ==
  /\ pc = "done"
  /\ \E f \in final_zips :
       f.entries[1] = [arcname |-> ZipFilename(twosum, Brainf),
                       files |-> <<SubmissionFilename(alice, 1, Brainf)>>]
  /\ Len(invocations) = 4
  /\ invocations[1].zip = ZipPath(c1, twosum, Python3)
  /\ invocations[2].mode = "csv"
  /\ used_ports = {start_port, start_port + 1}

(***************************************************************************)
(* C11: a failure of either tool invocation for a bucket (the process      *)
(* cannot be spawned, or it exits with a non-zero status) is caught and    *)
(* treated as no report for that bucket: the run is not aborted, and no    *)
(* report of a bucket whose invocation failed is among the reports the     *)
(* run aggregates.                                                         *)
(***************************************************************************)
\* the archives of the buckets of the run for which an invocation failed
FailedZips ==
  {TmpDir(contest_key) \o <<dolos_log[i].zip>> :
     i \in {i \in 1..Len(dolos_log) : dolos_log[i].e = "OSError"}}
  \cup {invocations[i].zip :
          i \in {i \in 1..Len(invocations) : invocations[i].returncode = "1"}}

\* the problem key the aggregator reads off a report directory of an archive
ReportKeyOfZip(zip_path) ==
  ProblemCodeOfReport(<<ToolReportDir(0, Basename(zip_path)), PairsCsv>>)

Aggregating ==
  /\ caller = "view"
  /\ pc \in {"extract_read", "extract_persist", "persist", "final_zip",
              "respond", "done"}

ToolFailureMeansNoReport ==
  /\ exc \notin {"OSError", "CalledProcessError"}
  /\ Aggregating =>
       \A z \in FailedZips : \A i \in 1..Len(report_csv_paths) :
          ProblemCodeOfReport(report_csv_paths[i]) # ReportKeyOfZip(z)

(***************************************************************************)
(* C12: when find_free_port exhausts its range for a bucket, only the      *)
(* web-mode invocation of that bucket is lost: the bucket's CSV-mode       *)
(* invocation is still run, its archive is in the final archive, and the   *)
(* later buckets are processed.                                            *)
(***************************************************************************)
PortExhaustionLosesWebOnly ==
  BucketsDone =>
    \A i \in 1..Len(dolos_log) :
      dolos_log[i].e = "RuntimeError" =>
        /\ \E j \in 1..Len(invocations) :
              /\ invocations[j].mode = "csv"
              /\ Basename(invocations[j].zip) = dolos_log[i].zip
        /\ \E k \in 1..Len(lang_zip_paths) :
              Basename(lang_zip_paths[k]) = dolos_log[i].zip

(***************************************************************************)
(* C13: both report locations are report sources: the rows of a report     *)
(* found at the captured-stdout path <archive path without .zip>_report.csv *)
(* of a bucket of the run, or at a path matching                           *)
(* <tmp_dir>/dolos-report-*/pairs.csv, are aggregated: both users of every *)
(* row have a value in the similarity data, at least the row's similarity. *)
(***************************************************************************)
ReportSources ==
  {CsvOutputPath(lang_zip_paths[i]) : i \in 1..Len(lang_zip_paths)}
    \cup GlobMatches(reports, TmpDir(contest_key))

\* some value of the user in the data is at least the similarity
HasValueAtLeast(data, user, similarity) ==
  /\ IndexOfUser(data, user) # 0
  /\ \E k \in 1..Len(data[IndexOfUser(data, user)].problems) :
        data[IndexOfUser(data, user)].problems[k].score >= similarity

BothReportLocationsAreSources ==
  (Aggregating /\ pc # "extract_read") =>
    \A r \in reports :
      r.path \in ReportSources =>
        \A k \in 1..Len(r.rows) :
          /\ HasValueAtLeast(similarity_data,
               extract_username(Basename(r.rows[k].leftFilePath)),
               r.rows[k].similarity)
          /\ HasValueAtLeast(similarity_data,
               extract_username(Basename(r.rows[k].rightFilePath)),
               r.rows[k].similarity)

(***************************************************************************)
(* C14: after any sequence or interleaving of runs that store scores (for  *)
(* the same contest or for different contests) the Score Store holds at    *)
(* most one row per (contest, user, problem_code) triple.                  *)
(***************************************************************************)
OneRowPerTriple ==
  \A r1 \in store : \A r2 \in store :
    SameKey(r1, r2.contest, r2.user, r2.problem_code) => r1 = r2

\* both runs have stored (alice, twosum) for the same contest, the second
\* run first, and one row is there
OneRowPerTripleWitness ==
  /\ writers # <<>>
  /\ \A w \in Writers : writers[w].next > Len(writers[w].triples)
  /\ writers[1].key = writers[2].key
  /\ \A w \in Writers :
       \E i \in 1..Len(writers[w].triples) :
          /\ writers[w].triples[i].user = alice
          /\ writers[w].triples[i].code = twosum
  /\ {r \in store : SameKey(r, writers[1].key, alice, twosum)}
       = {ScoreRow(writers[1].key, alice, twosum, 3000)}

(***************************************************************************)
(* C15: every similarity_percent the pipeline writes to the Score Store    *)
(* lies in [0, 100] (0 to 10000 hundredths of a percent), the similarities *)
(* of the tool's reports lying in [0, 1].                                  *)
(***************************************************************************)
PercentInRange ==
  (\A r \in reports : \A k \in 1..Len(r.rows) :
      r.rows[k].similarity \in 0..100)
  => \A r \in store : r.similarity_percent \in 0..10000

\* a finished run has written both ends of the range
PercentInRangeWitness ==
  /\ caller = "view" /\ pc = "done"
  /\ \E r \in store : r.similarity_percent = 10000
  /\ \E r \in store : r.similarity_percent = 0
  /\ \E r \in store : r.similarity_percent = 3000

(***************************************************************************)
(* C16: after a run in which the tool reported a pair (file of user A,     *)
(* file of user B, similarity) for a bucket of problem P, both users       *)
(* existing, the Score Store has a row for (contest, A, key) and one for   *)
(* (contest, B, key), key being the problem key read off the report, which *)
(* starts with the code of P; each row holds 100 times the greatest        *)
(* similarity reported for its user under that key.                        *)
(***************************************************************************)
\* the rows of the aggregated reports with report key `key` that name user
PairsOf(user, key) ==
  { row \in UNION { Range(ReportRows(reports, report_csv_paths[i])) :
                      i \in { i \in 1..Len(report_csv_paths) :
                                ProblemCodeOfReport(report_csv_paths[i]) = key } } :
      user \in { extract_username(Basename(row.leftFilePath)),
                 extract_username(Basename(row.rightFilePath)) } }

GreatestSimilarity(rows) ==
  CHOOSE m \in {row.similarity : row \in rows} :
    \A row \in rows : row.similarity <= m

\* the problem of the bucket a report belongs to
ProblemOfReport(path) ==
  CHOOSE p \in Range(ContestProblems(contest_key)) :
    \E i \in 1..Len(LANGUAGE_EXTENSIONS) :
      ToolReportDir(0, ZipFilename(p, LANGUAGE_EXTENSIONS[i][1]))
        = ReportDirName(0, Last(Split(Basename(Dirname(path)), "-")))

ReportedPairsAreStored ==
  (caller = "view" /\ pc = "done") =>
    \A i \in 1..Len(report_csv_paths) :
      LET key == ProblemCodeOfReport(report_csv_paths[i])
          P   == ProblemOfReport(report_csv_paths[i])
      IN  \A row \in Range(ReportRows(reports, report_csv_paths[i])) :
            LET A == extract_username(Basename(row.leftFilePath))
                B == extract_username(Basename(row.rightFilePath))
            IN  (A \in users /\ B \in users) =>
                  /\ Len(key) > Len(P) /\ SubSeq(key, 1, Len(P)) = P
                  /\ \A u \in {A, B} :
                       {r \in store : SameKey(r, contest_key, u, key)}
                         = {ScoreRow(contest_key, u, key,
                              100 * GreatestSimilarity(PairsOf(u, key)))}

\* bob_smith is paired at 0.30 with alice and at 1.00 with bob: the row of
\* bob_smith holds 100.00 and that of alice 30.00
ReportedPairsWitness ==
  /\ caller = "view" /\ pc = "done" /\ users = AllUsers
  /\ ScoreRow(c1, bob_smith, twosumPython3, 10000) \in store
  /\ ScoreRow(c1, alice, twosumPython3, 3000) \in store
  /\ ScoreRow(c1, bob, twosumPython3, 10000) \in store
  /\ \E r \in reports :
       r.rows = << ReportRow(SubmissionFilename(alice, 2, Python3),
                             SubmissionFilename(bob, 3, Python3), 30),
                   ReportRow(SubmissionFilename(alice, 2, Python3),
                             SubmissionFilename(bob_smith, 4, Python3), 30),
                   ReportRow(SubmissionFilename(bob, 3, Python3),
                             SubmissionFilename(bob_smith, 4, Python3), 100) >>

(***************************************************************************)
(* C17: for a contest with at least one score row read_similarity_matrix   *)
(* returns as headers the distinct normalized problem codes in sorted      *)
(* order and one row per distinct username in sorted order; every row has  *)
(* 1 + (number of headers) entries, and the cell of a user and a header    *)
(* for which the user has no score row reads 0.00%.                        *)
(***************************************************************************)
StrictlySorted(s) ==
  \A i \in 1..Len(s) : \A j \in 1..Len(s) : i < j => StrLess(s[i], s[j])

\* the score rows of the contest of a user under a header
CellRows(key, user, header) ==
  {r \in RowsOf(key) :
     r.user = user /\ normalize_problem_code(r.problem_code) = header}

MatrixShape ==
  (matrix # <<>> /\ matrix[1] \in Contests /\ RowsOf(matrix[1]) # {}) =>
    LET headers == matrix[2].headers
        rows    == matrix[2].rows
    IN  /\ Range(headers) =
             {normalize_problem_code(r.problem_code) : r \in RowsOf(matrix[1])}
        /\ StrictlySorted(headers)
        /\ Range([i \in 1..Len(rows) |-> rows[i][1]]) =
             {r.user : r \in RowsOf(matrix[1])}
        /\ StrictlySorted([i \in 1..Len(rows) |-> rows[i][1]])
        /\ \A i \in 1..Len(rows) :
             /\ Len(rows[i]) = 1 + Len(headers)
             /\ \A j \in 1..Len(headers) :
                  CellRows(matrix[1], rows[i][1], headers[j]) = {} =>
                    rows[i][j + 1] = <<"0",".","0","0","%">>

\* two users, two headers, each user without a row under one of them
MatrixShapeWitness ==
  /\ matrix # <<>> /\ matrix[1] = c1
  /\ store = {ScoreRow(c1, bob, twosumPython3, 8000),
              ScoreRow(c1, alice, sum, 9500)}
  /\ matrix[2] =
       [headers |-> <<sum, twosum>>,
        rows |-> << <<alice, <<"9","5",".","0","0","%">>, <<"0",".","0","0","%">> >>,
                    <<bob, <<"0",".","0","0","%">>, <<"8","0",".","0","0","%">> >> >>]

(***************************************************************************)
(* C18: every cell of the matrix, for a user and a header, is the greatest *)
(* similarity_percent among the stored rows of that user in the contest    *)
(* whose problem code normalizes to the header, in whatever order the rows *)
(* are read.                                                               *)
(***************************************************************************)
CellIsMaximum ==
  (matrix # <<>> /\ matrix[1] \in Contests /\ RowsOf(matrix[1]) # {}) =>
    LET headers == matrix[2].headers
        rows    == matrix[2].rows
    IN  \A i \in 1..Len(rows) : \A j \in 1..Len(headers) :
          CellRows(matrix[1], rows[i][1], headers[j]) # {} =>
            rows[i][j + 1] =
              FormatPercent(MaxPercent(CellRows(matrix[1], rows[i][1], headers[j])))

\* the raw code and a language variant of it, the variant with the lower
\* percent
CellIsMaximumWitness ==
  /\ matrix # <<>> /\ matrix[1] = c1
  /\ store = {ScoreRow(c1, bob, twosum, 9500),
              ScoreRow(c1, bob, twosumPython3, 5)}
  /\ matrix[2] = [headers |-> <<twosum>>,
                  rows |-> << <<bob, <<"9","5",".","0","0","%">> >> >>]

(***************************************************************************)
(* C19: the final archive <contestKey>_grouped_submissions.zip holds       *)
(* exactly one top-level entry per (problem, language) bucket of the run,  *)
(* named <problemCode>_<language, spaces replaced by underscores>          *)
(* _submissions.zip, in bucket processing order: the problems in contest   *)
(* order, and within a problem the languages in order of first appearance  *)
(* among its accepted submissions that have a source.  The entries are a   *)
(* function of the contest's submissions and sources.                      *)
(***************************************************************************)
\* the languages of a sequence of submissions, in order of first appearance
RECURSIVE LanguagesInOrder(_, _)
LanguagesInOrder(subs, seen) ==
  IF subs = <<>> THEN <<>>
  ELSE IF subs[1].lang \in seen THEN LanguagesInOrder(Tail(subs), seen)
  ELSE <<subs[1].lang>>
         \o LanguagesInOrder(Tail(subs), seen \cup {subs[1].lang})

ExpectedEntryName(problem_code, lang) ==
  problem_code \o <<"_">>
    \o [i \in 1..Len(lang) |-> IF lang[i] = " " THEN "_" ELSE lang[i]]
    \o <<"_","s","u","b","m","i","s","s","i","o","n","s",".","z","i","p">>

\* the entry names expected for the problems, every user being there
RECURSIVE ExpectedEntries(_, _)
ExpectedEntries(key, problems) ==
  IF problems = <<>> THEN <<>>
  ELSE LET subs  == SelectSeq(Submissions,
                      LAMBDA s : /\ s.contest = key /\ s.problem = problems[1]
                                 /\ s.result = "AC" /\ s.id \in sources)
           langs == LanguagesInOrder(subs, {})
       IN  [i \in 1..Len(langs) |-> ExpectedEntryName(problems[1], langs[i])]
             \o ExpectedEntries(key, Tail(problems))

FinalArchiveListsBuckets ==
  (caller = "view" /\ pc \in {"respond", "done"} /\ users = AllUsers) =>
    \E f \in final_zips :
      /\ f.path = FinalZipPath(contest_key)
      /\ Basename(f.path) = contest_key
           \o <<"_","g","r","o","u","p","e","d","_","s","u","b","m","i","s","s","i","o","n","s",".","z","i","p">>
      /\ [i \in 1..Len(f.entries) |-> f.entries[i].arcname]
           = ExpectedEntries(contest_key, ContestProblems(contest_key))
      /\ \A i \in 1..Len(f.entries) : \A j \in 1..Len(f.entries) :
           f.entries[i].arcname = f.entries[j].arcname => i = j

\* the source of submission 2 is missing: the Python 3 bucket, the second
\* of three, holds the two other files
FinalArchiveWitness ==
  /\ caller = "view" /\ pc = "done" /\ users = AllUsers
  /\ 2 \notin sources
  /\ \E f \in final_zips :
       /\ Basename(f.path) = <<"c","1","_","g","r","o","u","p","e","d","_","s","u","b","m","i","s","s","i","o","n","s",".","z","i","p">>
       /\ Len(f.entries) = 3
       /\ f.entries[2].arcname = <<"t","w","o","s","u","m","_","P","y","t","h","o","n","_","3","_","s","u","b","m","i","s","s","i","o","n","s",".","z","i","p">>
       /\ Len(f.entries[2].files) = 2
       /\ f.entries[3].arcname = <<"s","u","m","_","C","+","+","_","s","u","b","m","i","s","s","i","o","n","s",".","z","i","p">>

(***************************************************************************)
(* C20: apart from the Score Store nothing carries over from one run to    *)
(* the next: the reports a run aggregates are those of its own tool        *)
(* invocations, so a run aggregates no more reports of a bucket than the   *)
(* CSV-mode invocations it made for that bucket, whatever ran before it.   *)
(***************************************************************************)
\* the positions of the aggregated reports that carry the problem key
ReportsWithKey(key) ==
  {i \in 1..Len(report_csv_paths) :
     ProblemCodeOfReport(report_csv_paths[i]) = key}

\* the CSV-mode invocations of the run for the buckets with the problem key
CsvInvocationsWithKey(key) ==
  {k \in 1..Len(invocations) :
     /\ invocations[k].mode = "csv"
     /\ ReportKeyOfZip(invocations[k].zip) = key}

RunAggregatesOnlyItsOwnReports ==
  Aggregating =>
    \A i \in 1..Len(report_csv_paths) :
      LET key == ProblemCodeOfReport(report_csv_paths[i])
      IN  Cardinality(ReportsWithKey(key))
            <= Cardinality(CsvInvocationsWithKey(key))

(***************************************************************************)
(* C21: a run overwrites the stored percent of every key it writes with    *)
(* the value it computed: after the save the row of the key holds that     *)
(* value, whatever the row held before (last writer wins, no merge with    *)
(* the stored value).                                                      *)
(***************************************************************************)
\* writer w has just completed an update_or_create
Saved(w) ==
  /\ writers[w].found # ""
  /\ writers'[w].next = writers[w].next + 1

LastWriterWins ==
  [][\A w \in Writers :
       Saved(w) =>
         {r \in store' : SameKey(r, writers[w].key, WriterTriple(w).user,
                                 WriterTriple(w).code)}
           = {ScoreRow(writers[w].key, WriterTriple(w).user,
                       WriterTriple(w).code, WriterTriple(w).percent)}]_vars

\* the run that computed 100.00 for (bob, twosumPython3) has stored it, the
\* run that computed 30.00 for the same key has stored it too, and the row
\* holds 30.00: the lower value replaced the greater one
LastWriterWinsWitness ==
  /\ writers # <<>>
  /\ writers[1].key = c2 /\ writers[2].key = c2
  /\ writers[1].triples = <<[user |-> bob, code |-> twosumPython3,
                             percent |-> 3000]>>
  /\ writers[2].triples = <<[user |-> bob, code |-> twosumPython3,
                             percent |-> 10000]>>
  /\ writers[1].next = 2 /\ writers[2].next = 2
  /\ store = {ScoreRow(c2, bob, twosumPython3, 3000)}

(***************************************************************************)
(* C22: a run for a contest never deletes a score row, and leaves as they  *)
(* are every row of another contest and every row of its contest whose     *)
(* (user, problem code) key it does not write; building the matrix changes *)
(* no row at all.                                                          *)
(***************************************************************************)
\* the (user, problem code) keys the run writes: the report keys of the
\* aggregated data, and every problem of the contest for each of its users
RunKeys ==
  {<<Triples(similarity_data)[i].user, Triples(similarity_data)[i].code>> :
     i \in 1..Len(Triples(similarity_data))}
  \cup {<<similarity_data[i].user, p>> :
          i \in 1..Len(similarity_data),
          p \in Range(ContestProblems(contest_key))}

RunLeavesOtherRows ==
  [][/\ \A r \in store :
          \E r2 \in store' : SameKey(r2, r.contest, r.user, r.problem_code)
     /\ \A r \in store : r.contest # contest_key => r \in store'
     /\ \A r \in store :
          (r.contest = contest_key /\ <<r.user, r.problem_code>> \notin RunKeys)
            => r \in store'
     /\ matrix' # matrix => store' = store]_vars

\* the run for c1 has replaced the row of (alice, twosumPython3); the rows
\* of bob's other key and of contest c2 are as they were, and the matrix
\* has been built
RunLeavesOtherRowsWitness ==
  /\ caller = "view" /\ pc = "done" /\ contest_key = c1 /\ runs = 1
  /\ matrix # <<>> /\ matrix[1] = c1
  /\ ScoreRow(c1, bob, twosumCpp, 8000) \in store
  /\ ScoreRow(c2, alice, twosum, 8000) \in store
  /\ ScoreRow(c2, bob, twosumPython3, 9500) \in store
  /\ ScoreRow(c1, alice, twosumPython3, 3000) \in store
  /\ ScoreRow(c1, alice, sum, 3000) \in store

(***************************************************************************)
(* C23: a request refused for want of authentication or authorship is      *)
(* answered with the forbidden response and has no effect: no archive is   *)
(* written, no tool invoked, no score stored.  The refusal must therefore  *)
(* never end the request with an exception.                                *)
(***************************************************************************)
RefusalIsForbiddenResponse ==
  /\ exc # "NameError"
  /\ response = "HttpResponseForbidden" =>
       zips = {} /\ invocations = <<>> /\ store = {}

(***************************************************************************)
(* C24: within a run the buckets are handled strictly one at a time.  A    *)
(* tool process is started only for the bucket whose archive was written   *)
(* last, and that archive is on disk by then; the CSV-mode process of a    *)
(* bucket is started right after the web-mode process of the same bucket;  *)
(* when the next archive is begun, or the reports are collected, every     *)
(* CSV-mode process started has exited; the reports are collected only     *)
(* when no problem and no bucket is left; and no web-mode process is ever  *)
(* waited for: its exit status is never known to the run.                  *)
(***************************************************************************)
\* a tool process is started in this step
Launched == Len(invocations') = Len(invocations) + 1

CsvInvocations == {i \in 1..Len(invocations) : invocations[i].mode = "csv"}

BucketsOneAtATime ==
  /\ [][Launched =>
          /\ SubSeq(invocations', 1, Len(invocations)) = invocations
          /\ lang_zip_paths # <<>>
          /\ Last(invocations').zip = Last(lang_zip_paths)
          /\ \E z \in zips : z.path = Last(invocations').zip
          /\ Last(invocations').mode = "web" =>
               \A i \in 1..Len(invocations) :
                  invocations[i].zip # Last(invocations').zip
          /\ Last(invocations').mode = "csv" =>
               /\ invocations # <<>>
               /\ Last(invocations).mode = "web"
               /\ Last(invocations).zip = Last(invocations').zip]_vars
  /\ [][(Len(lang_zip_paths') > Len(lang_zip_paths) \/ (pc # "glob" /\ pc' = "glob")) =>
          /\ \A i \in CsvInvocations : invocations[i].returncode \in {"0", "1"}
          /\ invocations' = invocations]_vars
  /\ [](pc = "glob" => problems_left = <<>> /\ lang_buckets = <<>>)
  /\ [](\A i \in WebInvocations : invocations[i].returncode = "None")

\* two buckets, each archived, served and analysed in turn, and the run
\* answered while both web-mode processes are still unwaited
BucketsOneAtATimeWitness ==
  /\ pc = "done" /\ response = "FileResponse"
  /\ Len(invocations) = 4
  /\ invocations[1].mode = "web" /\ invocations[2].mode = "csv"
  /\ invocations[3].mode = "web" /\ invocations[4].mode = "csv"
  /\ invocations[2].zip = invocations[1].zip
  /\ invocations[3].zip # invocations[1].zip
  /\ invocations[4].zip = invocations[3].zip
  /\ invocations[2].returncode = "1" /\ invocations[4].returncode = "0"

(***************************************************************************)
(* C25: an authorized run terminates whenever every CSV-mode invocation    *)
(* terminates, whether or not the web-mode processes ever exit: a run that *)
(* has started ends with its response or an exception unless a CSV-mode    *)
(* process hangs, and nothing but a CSV-mode process makes it hang.  A run *)
(* whose CSV-mode process never exits stays where it is: it never collects *)
(* the reports, stores a score, writes the final archive or answers.       *)
(***************************************************************************)
RunTerminatesUnlessCsvHangs ==
  /\ (pc = "group") ~> (pc \in {"done", "raised", "hung"})
  /\ [][pc' = "hung" =>
          /\ pc \in {"csv", "hung"}
          /\ Last(invocations').mode = "csv"
          /\ Last(invocations').returncode = "None"]_vars
  /\ [][pc = "hung" => pc' = "hung" /\ store' = store]_vars
  /\ [](pc = "hung" =>
          /\ report_csv_paths = <<>> /\ similarity_data = <<>>
          /\ store = {} /\ final_zips = {} /\ response = "")

\* the web-mode process of the bucket was started and never waited for,
\* and its CSV-mode process hangs
RunTerminatesUnlessCsvHangsWitness ==
  /\ pc = "hung" /\ contest_key = c2
  /\ Len(invocations) = 2
  /\ invocations[1].mode = "web" /\ invocations[1].returncode = "None"
  /\ invocations[2].mode = "csv" /\ invocations[2].returncode = "None"
  /\ zips # {} /\ lang_zip_paths # <<>>

(***************************************************************************)
(* C26: find_free_port returns the lowest port p with                      *)
(* start_port <= p < max_port that is not in used_ports and on which the   *)
(* connection probe fails (nothing listens); when there is no such port it *)
(* raises the error and leaves used_ports as it was.                       *)
(***************************************************************************)
\* the ports of the call's range that are neither handed out nor listened on
ProbeFails ==
  {p \in PortCandidates :
     /\ port_call.start_port <= p /\ p < port_call.max_port
     /\ p \notin port_call.used_ports
     /\ p \notin port_call.listening}

FindFreePortLowest ==
  (port_call # <<>> /\ port_call.result # <<>>) =>
     IF ProbeFails = {}
     THEN /\ port_call.result[1].port = 0
          /\ port_call.result[1].used_ports = port_call.used_ports
     ELSE /\ port_call.result[1].port \in ProbeFails
          /\ \A q \in ProbeFails : port_call.result[1].port <= q

\* the first port was handed out before and a server listens on the second
FindFreePortWitness ==
  /\ port_call # <<>> /\ port_call.result # <<>>
  /\ port_call.start_port = start_port
  /\ port_call.used_ports = {start_port}
  /\ port_call.listening = {start_port + 1}
  /\ port_call.result[1].port = start_port + 2

(***************************************************************************)
(* C27: the bucket archives partition the accepted submissions that have a *)
(* source.  Every archive holds at least one file, no file twice, and only *)
(* files <username>_<submissionId>.<ext> of accepted submissions with a    *)
(* source, of the archive's own problem and language; and once the buckets *)
(* are done every such submission of the contest (of a user not deleted    *)
(* meanwhile) has its file in the archive of its problem and language, and *)
(* in no other archive.                                                    *)
(***************************************************************************)
\* the extension of the languages the submissions are written in
ExtensionOf(lang) ==
  IF lang = Python3 THEN <<"p","y">>
  ELSE IF lang = Cpp THEN <<"c","p","p">>
  ELSE <<"t","x","t">>

ExpectedFile(s) ==
  s.user \o <<"_">> \o IntStr(s.id) \o <<".">> \o ExtensionOf(s.lang)

\* the archives that hold the file of submission s
ArchivesHolding(s) == {z \in zips : ExpectedFile(s) \in Range(z.files)}

GroupingIsPartition ==
  /\ \A z \in zips :
       /\ z.files # <<>>
       /\ \A k \in 1..Len(z.files) :
            /\ \A j \in 1..Len(z.files) : z.files[j] = z.files[k] => j = k
            /\ \E s \in SubmissionSet :
                 /\ s.result = "AC" /\ s.id \in sources
                 /\ z.files[k] = ExpectedFile(s)
                 /\ z.path = ZipPath(s.contest, s.problem, s.lang)
  /\ BucketsDone =>
       \A s \in SubmissionSet :
         (/\ s.contest = contest_key /\ s.result = "AC"
          /\ s.id \in sources /\ s.user \in users) =>
            /\ Cardinality(ArchivesHolding(s)) = 1
            /\ \A z \in ArchivesHolding(s) :
                 z.path = ZipPath(s.contest, s.problem, s.lang)

\* three archives for the problem twosum and its two languages and for the
\* problem sum: six accepted submissions, one file each
GroupingWitness ==
  /\ BucketsDone /\ sources = SubmissionIds /\ users = AllUsers
  /\ Cardinality(zips) = 3
  /\ \A s \in SubmissionSet :
       (s.contest = c1 /\ s.result = "AC") =>
          Cardinality(ArchivesHolding(s)) = 1
  /\ \E z \in zips : z.path = ZipPath(c1, twosum, Python3) /\ Len(z.files) = 3

(***************************************************************************)
(* C28: every run allocates its ports against a used-port set of its own,  *)
(* which is empty when the run starts and is the set every find_free_port  *)
(* call of the run records into: the set never holds more ports than the   *)
(* run has started buckets, so a port recorded by one run is not excluded  *)
(* in a later run.                                                         *)
(***************************************************************************)
PortsAreLocalToRun ==
  /\ [][runs' # runs => used_ports' = {}]_vars
  /\ [][(pc = "detect" /\ pc' = "web") =>
          used_ports' = used_ports \cup {free_port'}]_vars
  /\ [](Cardinality(used_ports) <= Len(lang_zip_paths))
  /\ [](\A i \in WebInvocations : invocations[i].port \in used_ports)

\* a second run, after a first that was answered, is handed the first port
\* of the range
PortsAreLocalWitness ==
  /\ runs = 2 /\ pc = "csv"
  /\ final_zips # {}
  /\ free_port = start_port /\ used_ports = {start_port}
  /\ invocations # <<>> /\ Last(invocations).port = start_port

(***************************************************************************)
(* C29: after a run that returned its response, for every existing user of *)
(* the aggregated reports and every problem P of the contest, the row      *)
(* (contest, user, P.code) holds 100 times the greatest similarity among   *)
(* the user's report keys that belong to P (P's code followed by a         *)
(* language), and 0 when there is none: the entries of another problem,    *)
(* whose code merely contains P's code, have no part in it.                *)
(***************************************************************************)
\* the report keys of the buckets of problem P
KeysOfProblem(P) ==
  {ReportKeyOfZip(ZipPath(contest_key, P, lang)) : lang \in FilenameLanguages}

\* the similarities the aggregated data hold for a user under P's keys
OwnScores(entry, P) ==
  {entry.problems[j].score :
     j \in {j \in 1..Len(entry.problems) :
              entry.problems[j].code \in KeysOfProblem(P)}}

GreatestOf(S) == CHOOSE m \in S : \A x \in S : x <= m

ProblemRowHoldsOwnMaximum ==
  (caller = "view" /\ pc = "done") =>
     \A i \in 1..Len(similarity_data) :
        similarity_data[i].user \in users =>
          \A P \in Range(ContestProblems(contest_key)) :
             \E r \in store :
                /\ SameKey(r, contest_key, similarity_data[i].user, P)
                /\ r.similarity_percent =
                     100 * GreatestOf(OwnScores(similarity_data[i], P) \cup {0})

(***************************************************************************)
(* C30: a bulk email campaign has the status 'sent' only if none of its    *)
(* recipients has the status 'failed' or 'invalid': whenever the campaign  *)
(* is marked as completed while a recipient is failed or invalid, its      *)
(* status becomes 'partially_sent' or 'failed'.                            *)
(***************************************************************************)
SentMeansNoFailure ==
  (campaign # <<>> /\ campaign.status = "sent") =>
     \A r \in DOMAIN recipients :
        recipients[r].status \notin {"failed", "invalid"}

=============================================================================
